---- MODULE Spec2Model ----
(***************************************************************************)
(* Model of the TH Monthly Performance analysis engine                     *)
(* (src/analysis/*.py, driven by src/run_analysis.py and src/app.py).      *)
(*                                                                         *)
(* Tables (pandas DataFrames) are sequences of records, one record per     *)
(* row; a column is a record field, so "column absent" is "field not in   *)
(* the DOMAIN of the rows".  Money is a rational number [n, d] in lowest   *)
(* terms with d > 0; the value with d = 0 is NaN (a missing cell).  The    *)
(* rounding of IEEE doubles (relative error about 1e-16) is abstracted to  *)
(* exact rational arithmetic; the tolerance of the code is kept.           *)
(*                                                                         *)
(* Specifications:                                                         *)
(*   SpecClassify  loaded tables -> classify_all_activity                  *)
(*   SpecPools     ledger and cost centers -> calculate_pools              *)
(*   SpecAlloc     allocate_sga -> allocate_data -> allocate_workplace     *)
(*                 -> calculate_margins                                    *)
(*   SpecMargins   calculate_margins on frames with absent/missing cells   *)
(*   SpecNormalize normalize_contract_code on raw cells                    *)
(*   SpecLoad      ProFormaLoader.load from the project rows on            *)
(*   SpecMatch     PnLLoader._match_account                                *)
(*   SpecValidate  run_all_validations on a data dict                      *)
(*   Spec          a whole run, from the loaded tables to the output files *)
(*   SpecRerun     a run followed by a second run on the same inputs       *)
(*   SpecMonths    the output phases of two runs for different month keys  *)
(***************************************************************************)
EXTENDS Integers, Sequences, FiniteSets, TLC

VARIABLES
    pc,                 \* position of the run
    err,                \* the exception raised, <<>> when none
    proforma_df,        \* ProFormaLoader.load() result (aggregated revenue forecast)
    hours_df,           \* HarvestHoursLoader.load() result
    expenses_df,        \* HarvestExpensesLoader.load() result
    cc_config,          \* rows of config/cost_centers.csv
    classified,         \* dict returned by classify_all_activity
    pnl_df,             \* PnLLoader.load() result
    cost_centers_df,    \* cost-center table handed to calculate_pools
    include_cc_in_sga,  \* settings['include_cost_center_overhead_in_sga_pool']
    pools,              \* dict returned by calculate_pools
    arg_df,             \* the frame object passed to the last allocate_*/calculate_margins call
    revenue_df,         \* the frame bound to revenue_df in the caller
    comp_df,            \* CompensationLoader.load() result
    log,                \* the [WARN] lines printed to standard output
    data,               \* the dict handed to run_all_validations
    results,            \* the ValidationResult of the run
    files,              \* the paths under the output directory written by the run
    month,              \* the month key of the run (--month, form field 'month')
    frontend,           \* "cli" for run_analysis.py main(), "web" for app.py run_analysis()
    first_run,          \* the tables of an earlier run on the same inputs, <<>> when none
    args,               \* the arguments of a function called on its own
    ret                 \* what that call returned or raised

vars == <<pc, err, proforma_df, hours_df, expenses_df, cc_config, classified,
          pnl_df, cost_centers_df, include_cc_in_sga, pools, arg_df, revenue_df,
          comp_df, log, data, results, files, month, frontend, first_run, args, ret>>

\* the variables that the phases up to calculate_margins neither read nor write
late_vars == <<comp_df, log, data, results, files, month, frontend, first_run, args, ret>>

\* validators.py:24-27: a ValidationResult as constructed
NoResults == [passes |-> <<>>, warnings |-> <<>>, failures |-> <<>>]

\* the variables of the phases up to calculate_margins, pc and err apart
phase_vars == <<proforma_df, hours_df, expenses_df, cc_config, classified, pnl_df,
                cost_centers_df, include_cc_in_sga, pools, arg_df, revenue_df>>

LateIdle ==
    /\ comp_df = <<>>
    /\ log = <<>>
    /\ data = <<>>
    /\ results = NoResults
    /\ files = {}
    /\ month = ""
    /\ frontend = "cli"
    /\ first_run = <<>>
    /\ args = <<>>
    /\ ret = <<>>

-----------------------------------------------------------------------------
(* Bounds of the model *)

MaxRev == 2          \* revenue cells of the allocator range over -1 .. MaxRev
MaxClsRev == 1       \* revenue cells of the revenue forecast range over 0 .. MaxClsRev
MaxHoursRows == 2    \* rows of the hours table
MaxPnlRows == 1      \* rows of the ledger table
MaxCcRows == 2       \* rows of the cost-center table
MaxRows == 2         \* rows of the revenue table handed to the allocator
MaxPool == 3         \* pool totals range over -1 .. MaxPool
MaxCost == 1         \* cost cells range over 0 .. MaxCost

-----------------------------------------------------------------------------
(* Float arithmetic: rationals in lowest terms, NaN as d = 0 *)

Abs(x) == IF x < 0 THEN -x ELSE x

RECURSIVE GCD(_, _)
GCD(a, b) == IF b = 0 THEN a ELSE GCD(b, a % b)

NaN == [n |-> 0, d |-> 0]

IsNaN(x) == x.d = 0

Rat(n, d) ==
    IF d = 0 THEN NaN
    ELSE LET g == GCD(Abs(n), Abs(d))
             s == IF d < 0 THEN -1 ELSE 1
         IN  [n |-> s * (n \div g), d |-> s * (d \div g)]

R(i) == [n |-> i, d |-> 1]

Zero == R(0)

FAdd(a, b) == IF IsNaN(a) \/ IsNaN(b) THEN NaN ELSE Rat(a.n * b.d + b.n * a.d, a.d * b.d)

FSub(a, b) == IF IsNaN(a) \/ IsNaN(b) THEN NaN ELSE Rat(a.n * b.d - b.n * a.d, a.d * b.d)

FMul(a, b) == IF IsNaN(a) \/ IsNaN(b) THEN NaN ELSE Rat(a.n * b.n, a.d * b.d)

\* a / b for b # 0 (every division of the code is guarded by a test on b)
FDiv(a, b) == IF IsNaN(a) \/ IsNaN(b) THEN NaN ELSE Rat(a.n * b.d, a.d * b.n)

FAbs(a) == [n |-> Abs(a.n), d |-> a.d]

\* a <= b and a > b; any comparison with NaN is False, as for a float
FLe(a, b) == ~IsNaN(a) /\ ~IsNaN(b) /\ a.n * b.d <= b.n * a.d

FGt(a, b) == ~IsNaN(a) /\ ~IsNaN(b) /\ a.n * b.d > b.n * a.d

\* Series.fillna(0.0)
fillna(x) == IF IsNaN(x) THEN Zero ELSE x

\* Series.sum(): NaN cells are skipped, the empty sum is 0
RECURSIVE SumCol(_, _)
SumCol(df, col) ==
    IF df = <<>> THEN Zero
    ELSE FAdd(fillna(df[1][col]), SumCol(Tail(df), col))

\* set(df[col])
ColSet(df, col) == { df[i][col] : i \in 1..Len(df) }

\* col in df.columns (the columns of a frame are the fields of its rows)
HasCol(df, col) == df # <<>> /\ col \in DOMAIN df[1]

\* all sequences over S of length at most n
SeqsUpTo(S, n) == UNION { [1..k -> S] : k \in 0..n }

Range(s) == { s[i] : i \in 1..Len(s) }

\* the orders in which a Python set S may be iterated
Orders(S) == { s \in [1..Cardinality(S) -> S] : Range(s) = S }

-----------------------------------------------------------------------------
(* Contract codes: strings, as sequences of characters *)

THS1 == <<"T", "H", "S", "-", "1">>
THS2 == <<"T", "H", "S", "-", "2">>
ACME == <<"A", "C", "M", "E">>

\* the codes of the model, in string order (groupby and sorted() order rows by code)
CodeList == <<ACME, THS1, THS2>>

Codes == Range(CodeList)

\* sorted(S) for a set of codes S
Sorted(S) == SelectSeq(CodeList, LAMBDA c : c \in S)

\* str.startswith
startswith(s, prefix) == Len(s) >= Len(prefix) /\ SubSeq(s, 1, Len(prefix)) = prefix

THS_PREFIX == <<"T", "H", "S", "-">>

\* project names found in the hours data; NoName is a missing (NaN) name
Alpha == <<"A", "l", "p", "h", "a">>
Beta == <<"B", "e", "t", "a">>
NoName == <<>>

-----------------------------------------------------------------------------
(* ProFormaLoader: a project row of the sheet becomes a revenue-forecast row *)

\* loaders.py:105-115: a blank revenue cell is read as 0.0; no row is dropped for its revenue
ProFormaProject(code, col_a, revenue_val) ==
    [contract_code |-> code,
     allocation_tag |-> IF col_a \in {"Data", "Wellness"} THEN col_a ELSE "",
     revenue |-> IF ~IsNaN(revenue_val) THEN revenue_val ELSE Zero]

\* the loaded forecast for the codes in present, one row per code in code order
ProFormaLoad(present, col_a, cells) ==
    LET keys == Sorted(present)
    IN  [i \in 1..Len(keys) |-> ProFormaProject(keys[i], col_a[keys[i]], cells[keys[i]])]

-----------------------------------------------------------------------------
(* classification.py *)

\* ProjectClassifier._load_cost_centers
load_cost_centers(config) == ColSet(config, "code")

\* faulty variant: the cost-center test comes first and no conflict is raised
classify_cost_center_first(project_code, is_revenue_center, cost_centers) ==
    IF project_code \in cost_centers THEN "cost_center"
    ELSE IF is_revenue_center THEN "revenue_center"
    ELSE IF startswith(project_code, THS_PREFIX) THEN "cost_center"
    ELSE "non_revenue_client"

\* ProjectClassifier.classify; "conflict" stands for the ValueError it raises
classify(project_code, is_revenue_center, cost_centers) ==
    LET is_in_config == project_code \in cost_centers
        is_ths_internal == startswith(project_code, THS_PREFIX) /\ ~is_revenue_center
        is_cost_center == is_in_config \/ is_ths_internal
    IN  IF is_revenue_center /\ is_in_config THEN "conflict"
        ELSE IF is_revenue_center THEN "revenue_center"
        ELSE IF is_cost_center THEN "cost_center"
        ELSE "non_revenue_client"

\* classification.py:97
revenue_codes(rev) == ColSet(rev, "contract_code")

\* classification.py:98-100
activity_codes(hours, expenses) ==
    (IF hours # <<>> THEN ColSet(hours, "contract_code") ELSE {})
        \cup (IF expenses # <<>> THEN ColSet(expenses, "contract_code") ELSE {})

\* classification.py:102
all_codes(rev, hours, expenses, config) ==
    revenue_codes(rev) \cup activity_codes(hours, expenses) \cup load_cost_centers(config)

\* classification.py:104-106
classifications(rev, hours, expenses, config) ==
    [code \in all_codes(rev, hours, expenses, config) |->
        classify(code, code \in revenue_codes(rev), load_cost_centers(config))]

\* classification.py:109-111
codes_of_class(cls, rev, hours, expenses, config) ==
    LET c == classifications(rev, hours, expenses, config)
    IN  { code \in DOMAIN c : c[code] = cls }

\* faulty variant: the hours data are not consulted, the description is always the code
ths_project_name_code_only(code, hours) == code

\* classification.py:129-134: the first project name of the code in the hours data, else the code
ths_project_name(code, hours) ==
    IF hours # <<>> /\ HasCol(hours, "project_name")
    THEN LET rows == SelectSeq(hours, LAMBDA r : r.contract_code = code)
         IN  IF Len(rows) > 0 THEN rows[1].project_name ELSE code
    ELSE code

\* faulty variant: the auto-classified codes absent from the configuration are not added
missing_ths_codes_none(rev, hours, expenses, config) == {}

\* classification.py:121-123
missing_ths_codes(rev, hours, expenses, config) ==
    LET cc == codes_of_class("cost_center", rev, hours, expenses, config)
    IN  { c \in cc : startswith(c, THS_PREFIX) /\ c \notin (load_cost_centers(config) \cap cc) }

\* classification.py:116-146; order is the order in which the set missing_ths_codes is iterated
cost_centers_table(rev, hours, expenses, config, order) ==
    LET cc == codes_of_class("cost_center", rev, hours, expenses, config)
        kept == SelectSeq(config, LAMBDA r : r.code \in cc)
        from_config == [i \in 1..Len(kept) |->
            [contract_code |-> kept[i].code, description |-> kept[i].description,
             pool |-> kept[i].pool, total_cost |-> Zero]]
        ths_rows == [i \in 1..Len(order) |->
            [contract_code |-> order[i], description |-> ths_project_name(order[i], hours),
             pool |-> "SGA", total_cost |-> Zero]]
    IN  from_config \o ths_rows

\* classification.py:148-161
non_revenue_clients_table(rev, hours, expenses, config) ==
    LET keys == Sorted(codes_of_class("non_revenue_client", rev, hours, expenses, config))
        first_name(code) ==
            LET rows == SelectSeq(hours, LAMBDA r : r.contract_code = code)
            IN  IF Len(rows) > 0 THEN rows[1].project_name ELSE NoName
    IN  IF hours # <<>> /\ HasCol(hours, "project_name")
        THEN [i \in 1..Len(keys) |-> [contract_code |-> keys[i], project_name |-> first_name(keys[i])]]
        ELSE [i \in 1..Len(keys) |-> [contract_code |-> keys[i]]]

\* classification.py:113-114
revenue_centers_table(rev, hours, expenses, config) ==
    LET rc == codes_of_class("revenue_center", rev, hours, expenses, config)
    IN  SelectSeq(rev, LAMBDA r : r.contract_code \in rc)

\* classify_all_activity, when no classify call raises
classify_all_activity(rev, hours, expenses, config, order) ==
    [revenue_centers |-> revenue_centers_table(rev, hours, expenses, config),
     cost_centers |-> cost_centers_table(rev, hours, expenses, config, order),
     non_revenue_clients |-> non_revenue_clients_table(rev, hours, expenses, config)]

NoTables == [revenue_centers |-> <<>>, cost_centers |-> <<>>, non_revenue_clients |-> <<>>]

NoPools == [sga_pool |-> Zero, data_pool |-> Zero, workplace_pool |-> Zero]

-----------------------------------------------------------------------------
(* Specification of the classification phase (run_analysis.py:131-135) *)

\* hours tables: rows with a project_name column, or rows without one
HoursFrames ==
    SeqsUpTo([contract_code : {THS1, ACME}, project_name : {Alpha, Beta}], MaxHoursRows)
        \cup SeqsUpTo([contract_code : {THS1, ACME}], MaxHoursRows)

ExpenseFrames ==
    { [i \in 1..Len(Sorted(S)) |-> [contract_code |-> Sorted(S)[i], amount |-> R(1)]] :
        S \in SUBSET {THS2, ACME} }

ConfigRow(code) ==
    [code |-> code, description |-> code, pool |-> IF code = ACME THEN "DATA" ELSE "SGA"]

ConfigFrames ==
    { [i \in 1..Len(Sorted(S)) |-> ConfigRow(Sorted(S)[i])] : S \in SUBSET {THS1, ACME} }

ProFormaFrames ==
    { ProFormaLoad(present, [c \in Codes |-> ""], cells) :
        present \in (SUBSET Codes) \ {{}},
        cells \in [Codes -> {NaN} \cup { R(i) : i \in 0..MaxClsRev }] }

InitClassify ==
    /\ pc = "start"
    /\ err = <<>>
    /\ proforma_df \in ProFormaFrames
    /\ hours_df \in HoursFrames
    /\ expenses_df \in ExpenseFrames
    /\ cc_config \in ConfigFrames
    /\ classified = NoTables
    /\ pnl_df = <<>>
    /\ cost_centers_df = <<>>
    /\ include_cc_in_sga = TRUE
    /\ pools = NoPools
    /\ arg_df = <<>>
    /\ revenue_df = <<>>
    /\ LateIdle

\* run_analysis.py:135: classify_all_activity(proforma_df, hours_df, expenses_df, classifier)
ClassifyAllActivity ==
    /\ pc = "start"
    /\ LET cls == classifications(proforma_df, hours_df, expenses_df, cc_config)
           conflicts == { c \in DOMAIN cls : cls[c] = "conflict" }
       IN  IF conflicts # {}
           THEN \E c \in conflicts :
                    /\ err' = <<"Classification conflict", c>>
                    /\ pc' = "failed"
                    /\ UNCHANGED classified
           ELSE \E order \in Orders(missing_ths_codes(proforma_df, hours_df, expenses_df, cc_config)) :
                    /\ classified' = classify_all_activity(proforma_df, hours_df, expenses_df,
                                                           cc_config, order)
                    /\ pc' = "classified"
                    /\ UNCHANGED err
    /\ UNCHANGED <<proforma_df, hours_df, expenses_df, cc_config, pnl_df, cost_centers_df,
                   include_cc_in_sga, pools, arg_df, revenue_df>>
    /\ UNCHANGED late_vars

NextClassify == ClassifyAllActivity

SpecClassify == InitClassify /\ [][NextClassify]_vars

-----------------------------------------------------------------------------
(* Claims about classification *)

TableCodes(t) == ColSet(t, "contract_code")

\* the codes that carry positive revenue in the revenue forecast
PositiveRevenueCodes ==
    { proforma_df[i].contract_code : i \in { j \in 1..Len(proforma_df) : FGt(proforma_df[j].revenue, Zero) } }

ConfiguredCodes == ColSet(cc_config, "code")

InputCodes ==
    ColSet(proforma_df, "contract_code") \cup ColSet(hours_df, "contract_code")
        \cup ColSet(expenses_df, "contract_code") \cup ConfiguredCodes

\* C1: when classify_all_activity returns, the three output tables partition the union of
\* the revenue-forecast, hours, expense and configured cost-center codes: every such code is
\* in exactly one table and no other code is in any table.
C1_TotalDisjointPartition ==
    pc = "classified" =>
        LET rc == TableCodes(classified.revenue_centers)
            cc == TableCodes(classified.cost_centers)
            nr == TableCodes(classified.non_revenue_clients)
        IN  /\ rc \cup cc \cup nr = InputCodes
            /\ rc \cap cc = {}
            /\ rc \cap nr = {}
            /\ cc \cap nr = {}

\* C1 witness: a returned classification with all three tables non-empty, one of them holding
\* an auto-classified code that the configuration does not list
C1_Witness ==
    /\ pc = "classified"
    /\ classified.revenue_centers # <<>>
    /\ classified.non_revenue_clients # <<>>
    /\ \E i \in 1..Len(classified.cost_centers) :
           classified.cost_centers[i].contract_code \notin ConfiguredCodes

\* C2: a code is a Revenue Center iff it carries positive revenue in the revenue forecast (a
\* forecast code with revenue zero is not one).  The code classifies every forecast code as
\* a Revenue Center, so this is violated.
C2_RevenueCenterIffPositiveRevenue ==
    pc = "classified" => TableCodes(classified.revenue_centers) = PositiveRevenueCodes

\* C3: classification fails exactly when some code has positive revenue and is explicitly
\* configured as a cost center, and the error names such a code.  Violated: a configured
\* code that is in the forecast with revenue zero raises the conflict too.
C3_ConflictIffPositiveRevenueAndConfigured ==
    pc \in {"classified", "failed"} =>
        /\ (pc = "failed") <=> (PositiveRevenueCodes \cap ConfiguredCodes # {})
        /\ pc = "failed" => err[2] \in PositiveRevenueCodes \cap ConfiguredCodes

\* C4: an unconfigured code with the prefix THS- is a Revenue Center (and in no cost-center
\* row) when it carries positive revenue, and a Cost Center when it does not.  Violated: a
\* prefixed code in the forecast with revenue zero is classified as a Revenue Center.
C4_PrefixedCodeFollowsRevenue ==
    pc = "classified" =>
        \A c \in InputCodes :
            (startswith(c, THS_PREFIX) /\ c \notin ConfiguredCodes) =>
                IF c \in PositiveRevenueCodes
                THEN /\ c \in TableCodes(classified.revenue_centers)
                     /\ c \notin TableCodes(classified.cost_centers)
                ELSE c \in TableCodes(classified.cost_centers)

\* the codes classified as cost centers by their prefix alone: not in the forecast, not in
\* the configuration
AutoCostCenters ==
    { c \in InputCodes :
        /\ classify(c, c \in revenue_codes(proforma_df), load_cost_centers(cc_config)) = "cost_center"
        /\ startswith(c, THS_PREFIX)
        /\ c \notin ConfiguredCodes }

\* the project names the hours data hold for code c
ProjectNamesOf(c) ==
    IF HasCol(hours_df, "project_name")
    THEN { hours_df[i].project_name : i \in { j \in 1..Len(hours_df) : hours_df[j].contract_code = c } }
    ELSE {}

\* C24: every code classified as a cost center by its prefix alone is in exactly one row of
\* the cost_centers table, with pool SGA and as description a project name the hours data
\* hold for the code, or the code itself when they hold none.
C24_AutoCostCenterRow ==
    pc = "classified" =>
        \A c \in AutoCostCenters :
            LET rows == SelectSeq(classified.cost_centers, LAMBDA r : r.contract_code = c)
            IN  /\ Len(rows) = 1
                /\ rows[1].pool = "SGA"
                /\ IF ProjectNamesOf(c) = {} THEN rows[1].description = c
                   ELSE rows[1].description \in ProjectNamesOf(c)

\* C24 witness: a prefixed code that is only in the hours data, under two project names, is
\* a cost-center row described by the first of them
C24_Witness ==
    /\ pc = "classified"
    /\ THS1 \in AutoCostCenters
    /\ ProjectNamesOf(THS1) = {Alpha, Beta}
    /\ \E i \in 1..Len(classified.cost_centers) :
           /\ classified.cost_centers[i].contract_code = THS1
           /\ classified.cost_centers[i].description = hours_df[1].project_name

-----------------------------------------------------------------------------
(* allocations.py: OverheadAllocator *)

\* OverheadAllocator.__init__: tolerance = 0.01
Tolerance == Rat(1, 100)

\* df[df[col] == val][sumcol].sum()
SumWhere(df, col, val, sumcol) == SumCol(SelectSeq(df, LAMBDA r : r[col] = val), sumcol)

\* the frame with column col set row by row to val[i]
WithCol(df, col, val) ==
    [i \in 1..Len(df) |->
        [f \in DOMAIN df[i] \cup {col} |-> IF f = col THEN val[i] ELSE df[i][f]]]

\* faulty variant: cost centers labelled WORKPLACE are rolled into the workplace pool as well
calculate_pools_workplace_cc(pnl, cc, include) ==
    LET add == include /\ cc # <<>> /\ HasCol(cc, "total_cost") /\ HasCol(cc, "pool")
        bucket(b) == IF pnl # <<>> THEN SumWhere(pnl, "bucket", b, "amount") ELSE Zero
        label(l) == IF add THEN SumWhere(cc, "pool", l, "total_cost") ELSE Zero
    IN  [sga_pool |-> FAdd(bucket("SGA"), label("SGA")),
         data_pool |-> FAdd(bucket("DATA"), label("DATA")),
         workplace_pool |-> FAdd(bucket("WORKPLACE"), label("WORKPLACE"))]

\* OverheadAllocator.calculate_pools
calculate_pools(pnl, cc, include) ==
    LET data_pnl == IF pnl # <<>> THEN SumWhere(pnl, "bucket", "DATA", "amount") ELSE Zero
        workplace_pnl == IF pnl # <<>> THEN SumWhere(pnl, "bucket", "WORKPLACE", "amount") ELSE Zero
        sga_pnl == IF pnl # <<>> THEN SumWhere(pnl, "bucket", "SGA", "amount") ELSE Zero
        add == include /\ cc # <<>> /\ HasCol(cc, "total_cost") /\ HasCol(cc, "pool")
        data_cc == SumWhere(cc, "pool", "DATA", "total_cost")
        sga_cc == SumWhere(cc, "pool", "SGA", "total_cost")
    IN  [sga_pool |-> IF add THEN FAdd(sga_pnl, sga_cc) ELSE sga_pnl,
         data_pool |-> IF add THEN FAdd(data_pnl, data_cc) ELSE data_pnl,
         workplace_pool |-> workplace_pnl]

\* the outcome of an allocate_* call: whether it raised, the frame it returned, and the
\* frame that was passed to it as the call left it
Outcome(raised, out, passed) == [raised |-> raised, df |-> out, arg |-> passed]

\* faulty variant: the pool is split evenly over the rows instead of pro rata by revenue
allocate_sga_even(df, sga_pool, tolerance) ==
    LET total_rev == SumCol(df, "revenue")
        zeroed == WithCol(df, "sga_allocation", [i \in 1..Len(df) |-> Zero])
        out == WithCol(df, "sga_allocation",
                       [i \in 1..Len(df) |-> FDiv(sga_pool, R(Len(df)))])
    IN  IF FLe(total_rev, Zero)
        THEN Outcome(FALSE, zeroed, zeroed)
        ELSE Outcome(FGt(FAbs(FSub(SumCol(out, "sga_allocation"), sga_pool)), tolerance), out, df)

\* faulty variant: the guard on a non-positive total revenue is missing
allocate_sga_unguarded(df, sga_pool, tolerance) ==
    LET total_rev == SumCol(df, "revenue")
        out == WithCol(df, "sga_allocation",
                       [i \in 1..Len(df) |-> FMul(FDiv(df[i].revenue, total_rev), sga_pool)])
    IN  Outcome(FGt(FAbs(FSub(SumCol(out, "sga_allocation"), sga_pool)), tolerance), out, df)

\* OverheadAllocator.allocate_sga
allocate_sga(df, sga_pool, tolerance) ==
    LET total_rev == SumCol(df, "revenue")
        zeroed == WithCol(df, "sga_allocation", [i \in 1..Len(df) |-> Zero])
        out == WithCol(df, "sga_allocation",
                       [i \in 1..Len(df) |-> FMul(FDiv(df[i].revenue, total_rev), sga_pool)])
    IN  IF FLe(total_rev, Zero)
        THEN Outcome(FALSE, zeroed, zeroed)   \* the column is set on the caller's frame
        ELSE Outcome(FGt(FAbs(FSub(SumCol(out, "sga_allocation"), sga_pool)), tolerance), out, df)

\* faulty variant: the pool is spread over every row, whatever its tag
allocate_data_untagged(df, data_pool, tolerance) ==
    LET total_rev == SumCol(df, "revenue")
        zeroed == WithCol(df, "data_allocation", [i \in 1..Len(df) |-> Zero])
        out == WithCol(df, "data_allocation",
                       [i \in 1..Len(df) |-> FMul(FDiv(df[i].revenue, total_rev), data_pool)])
    IN  IF FLe(total_rev, Zero)
        THEN Outcome(FALSE, zeroed, df)
        ELSE Outcome(FGt(FAbs(FSub(SumCol(out, "data_allocation"), data_pool)), tolerance), out, df)

\* OverheadAllocator.allocate_data
allocate_data(df, data_pool, tolerance) ==
    LET zeroed == WithCol(df, "data_allocation", [i \in 1..Len(df) |-> Zero])
        data_df == SelectSeq(zeroed, LAMBDA r : r.allocation_tag = "Data")
        total_rev == SumCol(data_df, "revenue")
        out == WithCol(df, "data_allocation",
                       [i \in 1..Len(df) |->
                           IF df[i].allocation_tag = "Data"
                           THEN FMul(FDiv(df[i].revenue, total_rev), data_pool)
                           ELSE Zero])
    IN  IF FLe(total_rev, Zero)
        THEN Outcome(FALSE, zeroed, df)
        ELSE Outcome(FGt(FAbs(FSub(SumCol(out, "data_allocation"), data_pool)), tolerance), out, df)

\* faulty variant: each member's share is taken of the revenue of all rows, not of the cohort
allocate_workplace_all_revenue(df, workplace_pool, tolerance) ==
    LET zeroed == WithCol(df, "workplace_allocation", [i \in 1..Len(df) |-> Zero])
        w_df == SelectSeq(zeroed, LAMBDA r : r.allocation_tag = "Wellness")
        out == WithCol(df, "workplace_allocation",
                       [i \in 1..Len(df) |->
                           IF df[i].allocation_tag = "Wellness"
                           THEN FMul(FDiv(df[i].revenue, SumCol(df, "revenue")), workplace_pool)
                           ELSE Zero])
    IN  IF FLe(SumCol(w_df, "revenue"), Zero)
        THEN Outcome(FALSE, zeroed, df)
        ELSE Outcome(FGt(FAbs(FSub(SumCol(out, "workplace_allocation"), workplace_pool)),
                         tolerance), out, df)

\* OverheadAllocator.allocate_workplace
allocate_workplace(df, workplace_pool, tolerance) ==
    LET zeroed == WithCol(df, "workplace_allocation", [i \in 1..Len(df) |-> Zero])
        w_df == SelectSeq(zeroed, LAMBDA r : r.allocation_tag = "Wellness")
        total_rev == SumCol(w_df, "revenue")
        out == WithCol(df, "workplace_allocation",
                       [i \in 1..Len(df) |->
                           IF df[i].allocation_tag = "Wellness"
                           THEN FMul(FDiv(df[i].revenue, total_rev), workplace_pool)
                           ELSE Zero])
    IN  IF FLe(total_rev, Zero)
        THEN Outcome(FALSE, zeroed, df)
        ELSE Outcome(FGt(FAbs(FSub(SumCol(out, "workplace_allocation"), workplace_pool)),
                         tolerance), out, df)

CostColumns == <<"labor_cost", "expense_cost", "sga_allocation", "data_allocation",
                 "workplace_allocation">>

\* allocations.py:158-161: an absent column is created as 0.0, a missing cell is filled with 0.0
filled(row) ==
    [f \in DOMAIN row \cup Range(CostColumns) |->
        IF f \in Range(CostColumns)
        THEN (IF f \in DOMAIN row THEN fillna(row[f]) ELSE Zero)
        ELSE row[f]]

\* allocations.py:163-170
margin_dollars(r) ==
    FSub(FSub(FSub(FSub(FSub(r.revenue, r.labor_cost), r.expense_cost), r.sga_allocation),
              r.data_allocation), r.workplace_allocation)

\* faulty variant: the percentage is computed without the test for zero revenue
margin_percent_unguarded(r) == FMul(FDiv(r.margin_dollars, r.revenue), R(100))

\* allocations.py:171-174: r['revenue'] is falsy exactly for 0.0 (NaN is truthy)
margin_percent(r) ==
    IF r.revenue # Zero THEN FMul(FDiv(r.margin_dollars, r.revenue), R(100)) ELSE Zero

\* faulty variant: absent columns are created but missing cells are not filled
calculate_margins_nofill(df) ==
    LET created == [i \in 1..Len(df) |->
            [f \in DOMAIN df[i] \cup Range(CostColumns) |->
                IF f \in DOMAIN df[i] THEN df[i][f] ELSE Zero]]
        dollars == WithCol(created, "margin_dollars",
                           [i \in 1..Len(df) |-> margin_dollars(created[i])])
    IN  WithCol(dollars, "margin_percent", [i \in 1..Len(df) |-> margin_percent(dollars[i])])

\* calculate_margins
calculate_margins(df) ==
    LET f == [i \in 1..Len(df) |-> filled(df[i])]
        dollars == WithCol(f, "margin_dollars", [i \in 1..Len(df) |-> margin_dollars(f[i])])
    IN  WithCol(dollars, "margin_percent", [i \in 1..Len(df) |-> margin_percent(dollars[i])])

-----------------------------------------------------------------------------
(* Specification of pool derivation (run_analysis.py:183-187) *)

Buckets == {"DATA", "WORKPLACE", "NIL", "SGA"}

PoolLabels == {"SGA", "DATA", "WORKPLACE"}

\* ledger rows: PnLLoader.load drops the accounts whose amount is missing or zero
PnlFrames == SeqsUpTo([bucket : Buckets, amount : {R(-1), R(2)}], MaxPnlRows)

\* cost-center tables with their pool label and total cost, or without the pool column
CostCenterFrames ==
    SeqsUpTo([pool : PoolLabels, total_cost : { R(i) : i \in 0..MaxCost }], MaxCcRows)
        \cup SeqsUpTo([total_cost : { R(i) : i \in 0..MaxCost }], MaxCcRows)

InitPools ==
    /\ pc = "start"
    /\ err = <<>>
    /\ proforma_df = <<>>
    /\ hours_df = <<>>
    /\ expenses_df = <<>>
    /\ cc_config = <<>>
    /\ classified = NoTables
    /\ pnl_df \in PnlFrames
    /\ cost_centers_df \in CostCenterFrames
    /\ include_cc_in_sga \in BOOLEAN
    /\ pools = NoPools
    /\ arg_df = <<>>
    /\ revenue_df = <<>>
    /\ LateIdle

\* run_analysis.py:183-187
CalculatePools ==
    /\ pc = "start"
    /\ pools' = calculate_pools(pnl_df, cost_centers_df, include_cc_in_sga)
    /\ pc' = "pools"
    /\ UNCHANGED <<err, proforma_df, hours_df, expenses_df, cc_config, classified, pnl_df,
                   cost_centers_df, include_cc_in_sga, arg_df, revenue_df>>
    /\ UNCHANGED late_vars

NextPools == CalculatePools

SpecPools == InitPools /\ [][NextPools]_vars

-----------------------------------------------------------------------------
(* Specification of the allocation steps (run_analysis.py:188-191) *)

Tags == {"Data", "Wellness", ""}

RevenueCells == {R(-1), R(0), R(1), R(MaxRev)}

AllocFrames == SeqsUpTo([allocation_tag : Tags, revenue : RevenueCells], MaxRows)

PoolCells == {R(-1), R(0), R(MaxPool)}

\* the worked example of the specification: revenue 60000, 30000, 10000, SGA pool 9000
ExampleFrame ==
    <<[allocation_tag |-> "", revenue |-> R(60000)],
      [allocation_tag |-> "", revenue |-> R(30000)],
      [allocation_tag |-> "", revenue |-> R(10000)]>>

ExamplePools == [sga_pool |-> R(9000), data_pool |-> Zero, workplace_pool |-> Zero]

InitAlloc ==
    /\ pc = "pools"
    /\ err = <<>>
    /\ proforma_df = <<>>
    /\ hours_df = <<>>
    /\ expenses_df = <<>>
    /\ cc_config = <<>>
    /\ classified = NoTables
    /\ pnl_df = <<>>
    /\ cost_centers_df = <<>>
    /\ include_cc_in_sga = TRUE
    /\ \/ /\ revenue_df \in AllocFrames
          /\ pools \in [sga_pool : PoolCells, data_pool : PoolCells, workplace_pool : PoolCells]
       \/ /\ revenue_df = ExampleFrame
          /\ pools = ExamplePools
    /\ arg_df = <<>>
    /\ LateIdle

\* a step revenue_df = f(revenue_df, ...) of the caller: on a raise the run fails
AllocStep(from, to, outcome, message) ==
    /\ pc = from
    /\ arg_df' = outcome.arg
    /\ IF outcome.raised
       THEN /\ pc' = "failed"
            /\ err' = <<message>>
            /\ UNCHANGED revenue_df
       ELSE /\ pc' = to
            /\ revenue_df' = outcome.df
            /\ UNCHANGED err
    /\ UNCHANGED <<proforma_df, hours_df, expenses_df, cc_config, classified, pnl_df,
                   cost_centers_df, include_cc_in_sga, pools>>
    /\ UNCHANGED late_vars

SgaError == "SG&A allocation does not reconcile to pool within tolerance"
DataError == "Data allocation does not reconcile to pool within tolerance"
WorkplaceError == "Workplace allocation does not reconcile to pool within tolerance"

\* run_analysis.py:188
AllocateSga ==
    AllocStep("pools", "sga", allocate_sga(revenue_df, pools.sga_pool, Tolerance), SgaError)

\* run_analysis.py:189
AllocateData ==
    AllocStep("sga", "data", allocate_data(revenue_df, pools.data_pool, Tolerance), DataError)

\* run_analysis.py:190
AllocateWorkplace ==
    AllocStep("data", "workplace",
              allocate_workplace(revenue_df, pools.workplace_pool, Tolerance), WorkplaceError)

\* run_analysis.py:191
CalculateMargins ==
    /\ pc = "workplace"
    /\ arg_df' = revenue_df
    /\ revenue_df' = calculate_margins(revenue_df)
    /\ pc' = "margins"
    /\ UNCHANGED <<err, proforma_df, hours_df, expenses_df, cc_config, classified, pnl_df,
                   cost_centers_df, include_cc_in_sga, pools>>
    /\ UNCHANGED late_vars

NextAlloc == AllocateSga \/ AllocateData \/ AllocateWorkplace \/ CalculateMargins

SpecAlloc == InitAlloc /\ [][NextAlloc]_vars

-----------------------------------------------------------------------------
(* Specification of calculate_margins on frames whose cost columns may be absent or missing *)

CostCells == {NaN} \cup { R(i) : i \in 0..MaxCost }

\* a one-row frame: revenue, and the cost columns cols with the cells given
MarginFrame(cols, revenue, cells) ==
    <<[f \in cols \cup {"revenue"} |-> IF f = "revenue" THEN revenue ELSE cells[f]]>>

InitMargins ==
    /\ pc = "workplace"
    /\ err = <<>>
    /\ proforma_df = <<>>
    /\ hours_df = <<>>
    /\ expenses_df = <<>>
    /\ cc_config = <<>>
    /\ classified = NoTables
    /\ pnl_df = <<>>
    /\ cost_centers_df = <<>>
    /\ include_cc_in_sga = TRUE
    /\ pools = NoPools
    /\ arg_df = <<>>
    /\ \E cols \in SUBSET Range(CostColumns) :
           \E cells \in [cols -> CostCells], revenue \in RevenueCells :
               revenue_df = MarginFrame(cols, revenue, cells)
    /\ LateIdle

NextMargins == CalculateMargins

SpecMargins == InitMargins /\ [][NextMargins]_vars

-----------------------------------------------------------------------------
(* Claims about pool derivation, allocation and margins *)

\* the sum of column col over the rows of df whose index is in I
RECURSIVE SumOver(_, _, _)
SumOver(df, col, I) ==
    IF I = {} THEN Zero
    ELSE LET i == CHOOSE x \in I : TRUE
         IN  FAdd(df[i][col], SumOver(df, col, I \ {i}))

Rows == 1..Len(revenue_df)

\* the eligible cohort of each pool, as row indices
Cohort(p) ==
    CASE p = "sga" -> Rows
      [] p = "data" -> { i \in Rows : revenue_df[i].allocation_tag = "Data" }
      [] p = "workplace" -> { i \in Rows : revenue_df[i].allocation_tag = "Wellness" }

CohortRevenue(p) == SumOver(revenue_df, "revenue", Cohort(p))

AllocationColumn(p) ==
    CASE p = "sga" -> "sga_allocation"
      [] p = "data" -> "data_allocation"
      [] p = "workplace" -> "workplace_allocation"

PoolTotal(p) ==
    CASE p = "sga" -> pools.sga_pool
      [] p = "data" -> pools.data_pool
      [] p = "workplace" -> pools.workplace_pool

PoolNames == {"sga", "data", "workplace"}

\* allocate_<p> has been called in this run
Ran(p) ==
    CASE p = "sga" -> pc \in {"sga", "data", "workplace", "margins", "failed"}
      [] p = "data" -> \/ pc \in {"data", "workplace", "margins"}
                       \/ pc = "failed" /\ err \in {<<DataError>>, <<WorkplaceError>>}
      [] p = "workplace" -> \/ pc \in {"workplace", "margins"}
                            \/ pc = "failed" /\ err = <<WorkplaceError>>

\* allocate_<p> has been called and has returned its frame
Returned(p) ==
    CASE p = "sga" -> Ran("sga") /\ err # <<SgaError>>
      [] p = "data" -> Ran("data") /\ err # <<DataError>>
      [] p = "workplace" -> pc \in {"workplace", "margins"}

\* C5: for each of the three pools, when the eligible cohort has positive total revenue the
\* allocate operation returns a frame whose allocation column sums to the pool total within
\* 0.01.
C5_AllocationSumsToPool ==
    \A p \in PoolNames :
        (Ran(p) /\ FGt(CohortRevenue(p), Zero)) =>
            /\ Returned(p)
            /\ FLe(FAbs(FSub(SumOver(revenue_df, AllocationColumn(p), Rows), PoolTotal(p))),
                   Rat(1, 100))

\* C5 witness: all three allocations done on a frame with a Data row and a Wellness row of
\* positive revenue and three nonzero pools
C5_Witness ==
    /\ pc = "workplace"
    /\ \A p \in PoolNames : FGt(CohortRevenue(p), Zero) /\ PoolTotal(p) # Zero
    /\ Cohort("data") # Rows

IsExample ==
    /\ Len(revenue_df) = 3
    /\ revenue_df[1].revenue = R(60000)
    /\ revenue_df[2].revenue = R(30000)
    /\ revenue_df[3].revenue = R(10000)
    /\ pools.sga_pool = R(9000)

\* C6: when the cohort of a pool has positive total revenue, each member's allocation is
\* (member revenue / cohort revenue) x pool total; revenues 60000, 30000, 10000 with an SGA
\* pool of 9000 give 5400, 2700, 900, which sum to exactly 9000.
C6_ProRataShare ==
    /\ \A p \in PoolNames :
           (Returned(p) /\ FGt(CohortRevenue(p), Zero)) =>
               \A i \in Cohort(p) :
                   FMul(revenue_df[i][AllocationColumn(p)], CohortRevenue(p))
                       = FMul(revenue_df[i].revenue, PoolTotal(p))
    /\ (Returned("sga") /\ IsExample) =>
           /\ revenue_df[1].sga_allocation = R(5400)
           /\ revenue_df[2].sga_allocation = R(2700)
           /\ revenue_df[3].sga_allocation = R(900)
           /\ SumOver(revenue_df, "sga_allocation", Rows) = R(9000)

\* C6 witness: the SGA pool of the worked example has been allocated
C6_Witness == Returned("sga") /\ IsExample /\ revenue_df[1].sga_allocation = R(5400)

\* C7: a row outside the cohort of the data pool (not tagged Data) or of the workplace pool
\* (not tagged Wellness) gets exactly zero for that pool.
C7_NonMembersGetZero ==
    \A p \in {"data", "workplace"} :
        Returned(p) =>
            \A i \in Rows \ Cohort(p) : revenue_df[i][AllocationColumn(p)] = Zero

\* C7 witness: the data pool, nonzero, has been allocated to a Data row while another row with
\* revenue is not tagged Data
C7_Witness ==
    /\ Returned("data")
    /\ pools.data_pool # Zero
    /\ \E i \in Cohort("data") : revenue_df[i].data_allocation # Zero
    /\ \E i \in Rows \ Cohort("data") : FGt(revenue_df[i].revenue, Zero)

\* C8: when the total revenue of the cohort is zero or negative (an empty cohort included), the
\* allocate operation returns without raising and every row gets zero for that pool, whatever
\* the pool total.
C8_NonPositiveCohortGetsZero ==
    \A p \in PoolNames :
        (Ran(p) /\ FLe(CohortRevenue(p), Zero)) =>
            /\ Returned(p)
            /\ \A i \in Rows : revenue_df[i][AllocationColumn(p)] = Zero

\* C8 witness: a nonzero SGA pool over rows whose revenue totals at most zero, and a nonzero
\* data pool with no Data row, both allocated
C8_Witness ==
    /\ Returned("data")
    /\ Rows # {}
    /\ FLe(CohortRevenue("sga"), Zero) /\ pools.sga_pool # Zero
    /\ Cohort("data") = {} /\ pools.data_pool # Zero
    /\ \E i \in Rows : revenue_df[i].revenue # Zero

LedgerTotal(b) ==
    SumOver(pnl_df, "amount", { i \in 1..Len(pnl_df) : pnl_df[i].bucket = b })

CostCenterTotal(label) ==
    SumOver(cost_centers_df, "total_cost",
            { i \in 1..Len(cost_centers_df) :
                "pool" \in DOMAIN cost_centers_df[i] /\ cost_centers_df[i].pool = label })

\* C9: sga_pool is the ledger SGA total plus, only with the inclusion switch on, the total cost
\* of the cost centers labelled SGA; data_pool likewise with DATA; workplace_pool is the ledger
\* WORKPLACE total alone.
C9_PoolDerivation ==
    pc = "pools" =>
        /\ pools.sga_pool =
               FAdd(LedgerTotal("SGA"), IF include_cc_in_sga THEN CostCenterTotal("SGA") ELSE Zero)
        /\ pools.data_pool =
               FAdd(LedgerTotal("DATA"), IF include_cc_in_sga THEN CostCenterTotal("DATA") ELSE Zero)
        /\ pools.workplace_pool = LedgerTotal("WORKPLACE")

\* C9 witness: pools derived with the switch on from a ledger with a WORKPLACE account and
\* cost centers labelled SGA and WORKPLACE that have spend
C9_Witness ==
    /\ pc = "pools"
    /\ include_cc_in_sga
    /\ LedgerTotal("WORKPLACE") # Zero
    /\ CostCenterTotal("SGA") # Zero
    /\ CostCenterTotal("WORKPLACE") # Zero

\* the cell of a row, zero when the column is absent or the cell is missing
CellOrZero(row, col) == IF col \in DOMAIN row /\ ~IsNaN(row[col]) THEN row[col] ELSE Zero

\* C10: margin_dollars = revenue - labor_cost - expense_cost - sga_allocation -
\* data_allocation - workplace_allocation for every row, an absent column or a missing cell
\* counting as zero.
C10_MarginDollars ==
    pc = "margins" =>
        \A i \in Rows :
            revenue_df[i].margin_dollars =
                FSub(arg_df[i].revenue,
                     FAdd(CellOrZero(arg_df[i], "labor_cost"),
                     FAdd(CellOrZero(arg_df[i], "expense_cost"),
                     FAdd(CellOrZero(arg_df[i], "sga_allocation"),
                     FAdd(CellOrZero(arg_df[i], "data_allocation"),
                          CellOrZero(arg_df[i], "workplace_allocation"))))))

\* C10 witness: margins computed for a row with an absent column, a missing cell and a
\* nonzero cost
C10_Witness ==
    /\ pc = "margins"
    /\ "data_allocation" \notin DOMAIN arg_df[1]
    /\ "labor_cost" \in DOMAIN arg_df[1] /\ IsNaN(arg_df[1].labor_cost)
    /\ "sga_allocation" \in DOMAIN arg_df[1] /\ arg_df[1].sga_allocation = R(1)
    /\ revenue_df[1].margin_dollars # arg_df[1].revenue

\* C11: calculate_margins returns without raising; a row whose revenue is zero has
\* margin_percent 0, and a row whose revenue is not zero has margin_percent =
\* margin_dollars / revenue x 100.
C11_MarginPercent ==
    pc = "margins" =>
        /\ err = <<>>
        /\ \A i \in Rows :
               IF revenue_df[i].revenue = Zero
               THEN revenue_df[i].margin_percent = Zero
               ELSE revenue_df[i].margin_percent =
                        FMul(FDiv(revenue_df[i].margin_dollars, revenue_df[i].revenue), R(100))

\* C11 witness: margins computed for a row of zero revenue that has a nonzero cost, so that
\* its margin in dollars is not zero
C11_Witness ==
    /\ pc = "margins"
    /\ revenue_df[1].revenue = Zero
    /\ revenue_df[1].margin_dollars # Zero
    /\ revenue_df[1].margin_percent = Zero

\* C28: every call of allocate_sga, allocate_data, allocate_workplace and calculate_margins
\* leaves the table passed to it as it was passed, on every path, the path for a cohort with
\* zero or negative total revenue included.
C28_ArgumentUnchanged ==
    [][(pc \in {"pools", "sga", "data", "workplace"} /\ pc' # pc) => arg_df' = revenue_df]_vars

-----------------------------------------------------------------------------
(* normalize_contract_code (loaders.py:16-48), called on its own *)

MaxCodeLen == 5

NBSP == "nbsp"
TAB == "\t"

\* the characters of the raw codes: three kinds of whitespace and a letter in both cases
Chars == {" ", NBSP, TAB, "a", "A"}

\* str.isspace(): the no-break space U+00A0 is whitespace for Python
isspace(c) == c \in {" ", NBSP, TAB}

RECURSIVE lstrip(_)
lstrip(s) == IF s # <<>> /\ isspace(Head(s)) THEN lstrip(Tail(s)) ELSE s

RECURSIVE rstrip(_)
rstrip(s) == IF s # <<>> /\ isspace(s[Len(s)]) THEN rstrip(SubSeq(s, 1, Len(s) - 1)) ELSE s

\* str.strip()
strip(s) == rstrip(lstrip(s))

\* str.replace(old, new) for one-character old and new
replace(s, old, new) == [i \in 1..Len(s) |-> IF s[i] = old THEN new ELSE s[i]]

\* str.split() without arguments: the maximal runs of non-whitespace characters
RECURSIVE split(_)
split(s) ==
    LET t == lstrip(s)
    IN  IF t = <<>> THEN <<>>
        ELSE LET stop == CHOOSE k \in 1..Len(t) :
                     /\ k = Len(t) \/ isspace(t[k + 1])
                     /\ \A j \in 1..k : ~isspace(t[j])
             IN  <<SubSeq(t, 1, stop)>> \o split(SubSeq(t, stop + 1, Len(t)))

\* sep.join(parts)
RECURSIVE join(_, _)
join(sep, parts) ==
    IF parts = <<>> THEN <<>>
    ELSE IF Len(parts) = 1 THEN parts[1]
    ELSE parts[1] \o sep \o join(sep, Tail(parts))

\* what a call gives: the exception message when it raised, else the value returned
Raise(message) == [raised |-> TRUE, message |-> message, value |-> <<>>]
Return(value) == [raised |-> FALSE, message |-> "", value |-> value]

\* a raw cell: missing (None or NaN), or a text
Missing == [missing |-> TRUE, text |-> <<>>]
Text(s) == [missing |-> FALSE, text |-> s]

\* faulty variant: whitespace is trimmed at both ends but runs inside are left as they are
normalize_contract_code_trim_only(code) ==
    IF code.missing THEN Raise("Contract code is missing")
    ELSE LET normalized == strip(code.text)
         IN  IF normalized = <<>> THEN Raise("Contract code is empty after normalization")
             ELSE Return(normalized)

\* faulty variant: only blanks and tabs are trimmed and runs are not collapsed, so a no-break
\* space at an end survives as a blank
normalize_contract_code_ascii_strip(code) ==
    IF code.missing THEN Raise("Contract code is missing")
    ELSE LET I == { i \in 1..Len(code.text) : code.text[i] \notin {" ", TAB} }
             lo == CHOOSE i \in I : \A j \in I : i <= j
             hi == CHOOSE i \in I : \A j \in I : j <= i
             normalized == IF I = {} THEN <<>> ELSE replace(SubSeq(code.text, lo, hi), NBSP, " ")
         IN  IF normalized = <<>> THEN Raise("Contract code is empty after normalization")
             ELSE Return(normalized)

\* loaders.py:16-48
normalize_contract_code(code) ==
    IF code.missing THEN Raise("Contract code is missing")
    ELSE LET stripped == strip(code.text)
             replaced == replace(stripped, NBSP, " ")
             normalized == join(<<" ">>, split(replaced))
         IN  IF normalized = <<>> THEN Raise("Contract code is empty after normalization")
             ELSE Return(normalized)

PhaseIdle ==
    /\ err = <<>>
    /\ proforma_df = <<>>
    /\ hours_df = <<>>
    /\ expenses_df = <<>>
    /\ cc_config = <<>>
    /\ classified = NoTables
    /\ pnl_df = <<>>
    /\ cost_centers_df = <<>>
    /\ include_cc_in_sga = TRUE
    /\ pools = NoPools
    /\ arg_df = <<>>
    /\ revenue_df = <<>>

InitNormalize ==
    /\ pc = "start"
    /\ PhaseIdle
    /\ comp_df = <<>>
    /\ log = <<>>
    /\ data = <<>>
    /\ results = NoResults
    /\ files = {}
    /\ month = ""
    /\ frontend = "cli"
    /\ first_run = <<>>
    /\ args \in {Missing} \cup { Text(s) : s \in SeqsUpTo(Chars, MaxCodeLen) }
    /\ ret = <<>>

\* a call normalize_contract_code(code), as in loaders.py:106 or test_loaders.py:19
NormalizeContractCode ==
    /\ pc = "start"
    /\ ret' = normalize_contract_code(args)
    /\ pc' = IF ret'.raised THEN "raised" ELSE "returned"
    /\ UNCHANGED <<err, phase_vars, comp_df, log, data, results, files, month, frontend,
                   first_run, args>>

\* the code returned is normalized once more, as when an already normalized key is loaded again
NormalizeAgain ==
    /\ pc = "returned"
    /\ args' = Text(ret.value)
    /\ ret' = normalize_contract_code(args')
    /\ pc' = IF ret'.raised THEN "raised_again" ELSE "returned_again"
    /\ UNCHANGED <<err, phase_vars, comp_df, log, data, results, files, month, frontend,
                   first_run>>

NextNormalize == NormalizeContractCode \/ NormalizeAgain

SpecNormalize == InitNormalize /\ [][NextNormalize]_vars

-----------------------------------------------------------------------------
(* Claims about normalize_contract_code *)

\* the positions of the non-whitespace characters of s, in increasing order
NonSpace(s) ==
    LET I == { i \in 1..Len(s) : ~isspace(s[i]) }
    IN  [k \in 1..Cardinality(I) |-> CHOOSE i \in I : Cardinality({ j \in I : j < i }) = k - 1]

\* out is text with the whitespace at both ends removed and every run of whitespace inside
\* replaced by one space, nothing else changed
IsNormalFormOf(out, text) ==
    LET a == NonSpace(text)
        b == NonSpace(out)
    IN  /\ Len(a) = Len(b)
        /\ \A k \in 1..Len(a) : out[b[k]] = text[a[k]]
        /\ \A i \in 1..Len(out) : isspace(out[i]) => out[i] = " "
        /\ Len(b) > 0 => b[1] = 1 /\ b[Len(b)] = Len(out)
        /\ \A k \in 1..(Len(a) - 1) :
               b[k + 1] - b[k] = IF a[k + 1] - a[k] > 1 THEN 2 ELSE 1

\* C20: for an input with at least one non-whitespace character normalize_contract_code
\* returns the input with leading and trailing whitespace (no-break spaces included) removed
\* and each internal run of whitespace replaced by one space, case unchanged; for a missing
\* input or one that is empty after trimming it raises ValueError; it never returns the empty
\* code.
C20_NormalizeContractCode ==
    pc \in {"returned", "raised"} =>
        /\ (~args.missing /\ NonSpace(args.text) # <<>>) =>
               pc = "returned" /\ IsNormalFormOf(ret.value, args.text)
        /\ (args.missing \/ NonSpace(args.text) = <<>>) => pc = "raised"
        /\ pc = "returned" => ret.value # <<>>

\* C20 witness: a code returned for an input with a no-break space in front, a run of two
\* whitespace characters inside and letters of both cases
C20_Witness ==
    /\ pc = "returned"
    /\ args.text = <<NBSP, "a", " ", TAB, "A">>
    /\ ret.value = <<"a", " ", "A">>

\* C30: normalize_contract_code is idempotent: applied to a code it has returned, it returns
\* that code again and never raises.
C30_NormalizeIdempotent ==
    /\ pc # "raised_again"
    /\ pc = "returned_again" => ret.value = args.text

\* C30 witness: the second normalization of a code that came from a raw text with inner and
\* outer whitespace
C30_Witness ==
    /\ pc = "returned_again"
    /\ args.text = <<"a", " ", "A">>
    /\ ret.value = <<"a", " ", "A">>

-----------------------------------------------------------------------------
(* ProFormaLoader.load from the project rows of the sheet on (loaders.py:92-140) *)

MaxProjects == 2

\* the distinct values of a column in order of first appearance (Series.unique())
RECURSIVE unique(_)
unique(s) ==
    IF s = <<>> THEN <<>>
    ELSE LET init == unique(SubSeq(s, 1, Len(s) - 1))
         IN  IF s[Len(s)] \in Range(init) THEN init ELSE Append(init, s[Len(s)])

\* loaders.py:224-231; tags are never missing here and '' is discarded
reconcile_tag(tags) ==
    IF "Data" \in tags THEN "Data"
    ELSE IF "Wellness" \in tags THEN "Wellness"
    ELSE ""

\* set(code_rows['allocation_tag']) without '' for the rows of one code
tags_of(projects_df, code) ==
    { projects_df[i].allocation_tag :
        i \in { j \in 1..Len(projects_df) : projects_df[j].contract_code = code } } \ {""}

\* loaders.py:233-238: one row per code in code order, tags reconciled, revenue summed
aggregated_rows(projects_df) ==
    LET keys == Sorted(ColSet(projects_df, "contract_code"))
    IN  [i \in 1..Len(keys) |->
            [contract_code |-> keys[i],
             allocation_tag |-> reconcile_tag(tags_of(projects_df, keys[i])),
             revenue |-> SumCol(SelectSeq(projects_df, LAMBDA r : r.contract_code = keys[i]),
                                "revenue")]]

\* faulty variant: duplicates are aggregated without the check for conflicting tags
aggregate_duplicates_unchecked(projects_df) == Return(aggregated_rows(projects_df))

\* loaders.py:207-245: ProFormaLoader._aggregate_duplicates
aggregate_duplicates(projects_df) ==
    LET codes == unique([i \in 1..Len(projects_df) |-> projects_df[i].contract_code])
        conflicting == SelectSeq(codes, LAMBDA c : {"Data", "Wellness"} \subseteq tags_of(projects_df, c))
    IN  IF conflicting # <<>>
        THEN Raise(<<"Allocation tag conflict", conflicting[1]>>)
        ELSE Return(aggregated_rows(projects_df))

\* loaders.py:92-140 for the project rows sheet.projects and the total-revenue cell
ProFormaLoader_load(sheet) ==
    LET raw == sheet.projects
        codes == [i \in 1..Len(raw) |-> normalize_contract_code(Text(raw[i].col_c))]
        bad == { i \in 1..Len(raw) : codes[i].raised }
        projects_df == [i \in 1..Len(raw) |->
            ProFormaProject(codes[i].value, raw[i].col_a, raw[i].revenue_val)]
        aggregated == aggregate_duplicates(projects_df)
    IN  IF raw = <<>> THEN Raise(<<"No projects found in Pro Forma after parsing">>)
        ELSE IF bad # {} THEN Raise(<<"Contract code is empty after normalization">>)
        ELSE IF aggregated.raised THEN aggregated
        ELSE IF FGt(FAbs(FSub(SumCol(aggregated.value, "revenue"), sheet.total_revenue)),
                    Tolerance)
             THEN Raise(<<"Revenue sum mismatch">>)
        ELSE aggregated

\* the code cells of the sheet: two spellings of one code, another code, a blank cell
RawCodes == {ACME, <<" ">> \o ACME \o <<NBSP>>, THS1, <<" ">>}

\* the project rows of a sheet: tag cell, code cell and revenue cell of the month
SheetRows == [col_a : {"Data", "Wellness", "x"}, col_c : RawCodes, revenue_val : {NaN, R(1)}]

InitLoad ==
    /\ pc = "start"
    /\ PhaseIdle
    /\ comp_df = <<>>
    /\ log = <<>>
    /\ data = <<>>
    /\ results = NoResults
    /\ files = {}
    /\ month = ""
    /\ frontend = "cli"
    /\ first_run = <<>>
    /\ \E projects \in SeqsUpTo(SheetRows, MaxProjects), total \in { R(i) : i \in 0..MaxProjects } :
           args = [projects |-> projects, total_revenue |-> total]
    /\ ret = <<>>

\* run_analysis.py:115-116: proforma_df = ProFormaLoader(args.proforma, args.month).load()
LoadProForma ==
    /\ pc = "start"
    /\ ret' = ProFormaLoader_load(args)
    /\ IF ret'.raised
       THEN pc' = "failed" /\ err' = ret'.message /\ UNCHANGED proforma_df
       ELSE pc' = "loaded" /\ proforma_df' = ret'.value /\ UNCHANGED err
    /\ UNCHANGED <<hours_df, expenses_df, cc_config, classified, pnl_df, cost_centers_df,
                   include_cc_in_sga, pools, arg_df, revenue_df, comp_df, log, data, results,
                   files, month, frontend, first_run, args>>

NextLoad == LoadProForma

SpecLoad == InitLoad /\ [][NextLoad]_vars

-----------------------------------------------------------------------------
(* Claims about the loading of the revenue forecast *)

\* the code of project row i of the sheet, once normalized
SheetCode(i) == normalize_contract_code(Text(args.projects[i].col_c)).value

SheetRowsOf(code) == { i \in 1..Len(args.projects) : SheetCode(i) = code }

\* the codes that carry both a Data and a Wellness tag among the project rows of the sheet
ConflictingCodes ==
    { c \in { SheetCode(i) : i \in 1..Len(args.projects) } :
        /\ \E i \in SheetRowsOf(c) : args.projects[i].col_a = "Data"
        /\ \E i \in SheetRowsOf(c) : args.projects[i].col_a = "Wellness" }

\* every code cell of the sheet holds a code
AllCodesPresent ==
    \A i \in 1..Len(args.projects) : NonSpace(args.projects[i].col_c) # <<>>

-----------------------------------------------------------------------------
(* PnLLoader._match_account (loaders.py:588-605), called on its own *)

MaxRules == 2

\* str.lower() on the letters of the model
lower_char(c) ==
    CASE c = "R" -> "r"
      [] c = "E" -> "e"
      [] c = "N" -> "n"
      [] c = "T" -> "t"
      [] OTHER -> c

lower(s) == [i \in 1..Len(s) |-> lower_char(s[i])]

\* the operator `in` on strings: sub occurs in s as a contiguous run
contains(s, sub) ==
    \E k \in 0..(Len(s) - Len(sub)) : SubSeq(s, k + 1, k + Len(sub)) = sub

\* re.search(pattern, s, re.IGNORECASE) for patterns made of literal characters and '.'
re_search_ignorecase(pattern, s) ==
    \E k \in 0..(Len(s) - Len(pattern)) :
        \A i \in 1..Len(pattern) :
            pattern[i] = "." \/ lower_char(pattern[i]) = lower_char(s[k + i])

\* loaders.py:595-604: the test of one rule
rule_matches(rule, account_name) ==
    CASE rule.match_type = "exact" -> account_name = rule.pattern
      [] rule.match_type = "contains" -> contains(lower(account_name), lower(rule.pattern))
      [] rule.match_type = "regex" -> re_search_ignorecase(rule.pattern, account_name)
      [] OTHER -> FALSE

\* loaders.py:588-605: the rules are tried in the order of the file, the first match returns
RECURSIVE match_account(_, _)
match_account(account_name, config) ==
    IF config = <<>> THEN <<"SGA", "default">>
    ELSE IF rule_matches(Head(config), account_name)
         THEN <<Head(config).bucket, Head(config).match_type>>
         ELSE match_account(account_name, Tail(config))

Rent == <<"R", "e", "n", "t">>

\* account names of the ledger
AccountNames == {Rent, <<"r", "e", "n", "t">>, <<"T", "a", "x">>}

\* rows of config/pnl_account_tags.csv
Rules ==
    [match_type : {"exact", "contains", "regex"},
     pattern : {Rent, <<"e", "N">>, <<"r", ".", "n">>},
     bucket : {"DATA", "NIL"}]

InitMatch ==
    /\ pc = "start"
    /\ PhaseIdle
    /\ comp_df = <<>>
    /\ log = <<>>
    /\ data = <<>>
    /\ results = NoResults
    /\ files = {}
    /\ month = ""
    /\ frontend = "cli"
    /\ first_run = <<>>
    /\ \E account_name \in AccountNames, config \in SeqsUpTo(Rules, MaxRules) :
           args = [account_name |-> account_name, config |-> config]
    /\ ret = <<>>

\* loaders.py:540: bucket, matched_by = self._match_account(account_name, tags_config)
MatchAccount ==
    /\ pc = "start"
    /\ ret' = match_account(args.account_name, args.config)
    /\ pc' = "matched"
    /\ UNCHANGED <<err, phase_vars, comp_df, log, data, results, files, month, frontend,
                   first_run, args>>

NextMatch == MatchAccount

SpecMatch == InitMatch /\ [][NextMatch]_vars

-----------------------------------------------------------------------------
(* Claims about the bucketing of ledger accounts *)

\* the rules of the configuration of type t that match the account
MatchingRules(t) ==
    { i \in 1..Len(args.config) :
        args.config[i].match_type = t /\ rule_matches(args.config[i], args.account_name) }

\* the rule type that wins by priority: exact, then contains, then regex
WinningType ==
    IF MatchingRules("exact") # {} THEN "exact"
    ELSE IF MatchingRules("contains") # {} THEN "contains"
    ELSE IF MatchingRules("regex") # {} THEN "regex"
    ELSE "default"

\* C19: the bucket of a ledger account is that of a matching rule of the highest-priority
\* type (exact, then substring, then pattern) whatever the order of the rules in the
\* configuration; an account matched by no rule gets bucket SGA with matched_by 'default'.
C19_RuleTypePriority ==
    pc = "matched" =>
        IF WinningType = "default" THEN ret = <<"SGA", "default">>
        ELSE /\ ret[2] = WinningType
             /\ \E i \in MatchingRules(WinningType) : ret[1] = args.config[i].bucket

-----------------------------------------------------------------------------
(* validators.py: the four rule families and run_all_validations *)

\* staff keys, in string order
StaffList == <<"Jones", "Smith">>

\* sorted(S) for a set of staff keys S
SortedStaff(S) == SelectSeq(StaffList, LAMBDA k : k \in S)

\* validators.py:61
required_keys ==
    <<"revenue_centers", "cost_centers", "non_revenue_clients", "proforma", "pools", "hours",
      "expenses", "compensation", "pnl">>

\* the checks of the four families, named after what they test
CompletenessChecks ==
    {"required_keys", "revenue_centers_loaded", "pools_keys", "compensation_loaded",
     "hours_empty", "expenses_empty"}
KeyIntegrityChecks == {"duplicate_staff", "missing_staff", "revenue_cost_conflict"}
MathematicalChecks ==
    {"revenue_sum", "sga_allocation", "data_allocation", "workplace_allocation"}
ReasonablenessChecks == {"revenue_without_hours", "hours_without_revenue", "unmatched_accounts"}

\* the state of a validation run: the ValidationResult, the checks control has reached, the
\* families that have returned, and the exception that escaped ("" when none)
NoRun ==
    [passes |-> <<>>, warnings |-> <<>>, failures |-> <<>>, checks |-> {}, families |-> {},
     raised |-> ""]

\* validators.py:21-31
add_pass(st, message) == [st EXCEPT !.passes = Append(@, message)]
add_warning(st, message) == [st EXCEPT !.warnings = Append(@, message)]
add_failure(st, message) == [st EXCEPT !.failures = Append(@, message)]

\* control reaches check c
reach(st, c) == [st EXCEPT !.checks = @ \cup {c}]

\* validate() of family f returns
done(st, f) == [st EXCEPT !.families = @ \cup {f}]

\* data[key] for a key that is absent
KeyError(st, key) == [st EXCEPT !.raised = "KeyError: " \o key]

\* getattr(x, 'empty', True) for a frame
empty(df) == df = <<>>

\* df.get(col, pd.Series(dtype=str)) as a set
ColOrNone(df, col) == IF HasCol(df, col) THEN ColSet(df, col) ELSE {}

\* faulty variant: an empty hours table is recorded as a failure
DataCompletenessValidator_validate_hours_fail(d, st) ==
    LET missing == SelectSeq(required_keys, LAMBDA k : k \notin DOMAIN d)
        s0 == reach(st, "required_keys")
        s1 == IF empty(d.revenue_centers)
              THEN add_failure(reach(s0, "revenue_centers_loaded"), <<"No revenue centers found">>)
              ELSE add_pass(reach(s0, "revenue_centers_loaded"), <<"Revenue centers loaded">>)
        s2 == IF {"sga_pool", "data_pool", "workplace_pool"} \subseteq DOMAIN d.pools
              THEN add_pass(reach(s1, "pools_keys"), <<"Overhead pools calculated">>)
              ELSE add_failure(reach(s1, "pools_keys"), <<"Overhead pools missing required keys">>)
        s3 == IF empty(d.compensation)
              THEN add_failure(reach(s2, "compensation_loaded"), <<"Compensation data missing or empty">>)
              ELSE add_pass(reach(s2, "compensation_loaded"), <<"Compensation loaded">>)
        s4 == IF empty(d.hours)
              THEN add_failure(reach(s3, "hours_empty"), <<"Harvest Hours is empty">>)
              ELSE reach(s3, "hours_empty")
        s5 == IF empty(d.expenses)
              THEN add_warning(reach(s4, "expenses_empty"), <<"Harvest Expenses is empty">>)
              ELSE reach(s4, "expenses_empty")
    IN  IF missing # <<>>
        THEN done(add_failure(s0, <<"Missing required data keys", missing>>), "completeness")
        ELSE done(s5, "completeness")

\* validators.py:59-85
DataCompletenessValidator_validate(d, st) ==
    LET missing == SelectSeq(required_keys, LAMBDA k : k \notin DOMAIN d)
        s0 == reach(st, "required_keys")
        s1 == IF empty(d.revenue_centers)
              THEN add_failure(reach(s0, "revenue_centers_loaded"), <<"No revenue centers found">>)
              ELSE add_pass(reach(s0, "revenue_centers_loaded"), <<"Revenue centers loaded">>)
        s2 == IF {"sga_pool", "data_pool", "workplace_pool"} \subseteq DOMAIN d.pools
              THEN add_pass(reach(s1, "pools_keys"), <<"Overhead pools calculated">>)
              ELSE add_failure(reach(s1, "pools_keys"), <<"Overhead pools missing required keys">>)
        s3 == IF empty(d.compensation)
              THEN add_failure(reach(s2, "compensation_loaded"), <<"Compensation data missing or empty">>)
              ELSE add_pass(reach(s2, "compensation_loaded"), <<"Compensation loaded">>)
        s4 == IF empty(d.hours)
              THEN add_warning(reach(s3, "hours_empty"), <<"Harvest Hours is empty">>)
              ELSE reach(s3, "hours_empty")
        s5 == IF empty(d.expenses)
              THEN add_warning(reach(s4, "expenses_empty"), <<"Harvest Expenses is empty">>)
              ELSE reach(s4, "expenses_empty")
    IN  IF missing # <<>>
        THEN done(add_failure(s0, <<"Missing required data keys", missing>>), "completeness")
        ELSE done(s5, "completeness")

\* the rows of comp whose staff_key occurs more than once (duplicated(keep=False))
duplicated(comp) ==
    { comp[i].staff_key : i \in { j \in 1..Len(comp) :
        \E k \in 1..Len(comp) : k # j /\ comp[k].staff_key = comp[j].staff_key } }

\* faulty variant: staff absent from the compensation table are recorded as a warning
missing_staff_check_warns(d, st) ==
    LET s == reach(st, "missing_staff")
    IN  IF "hours" \in DOMAIN d /\ "compensation" \in DOMAIN d
             /\ ~empty(d.hours) /\ ~empty(d.compensation)
        THEN LET missing_staff == ColSet(d.hours, "staff_key") \ ColSet(d.compensation, "staff_key")
             IN  IF missing_staff # {}
                 THEN add_warning(s, <<"Harvest Hours staff missing in Compensation",
                                       SortedStaff(missing_staff)>>)
                 ELSE add_pass(s, <<"All Harvest Hours staff have compensation records">>)
        ELSE s

\* validators.py:112-119
missing_staff_check(d, st) ==
    LET s == reach(st, "missing_staff")
    IN  IF "hours" \in DOMAIN d /\ "compensation" \in DOMAIN d
             /\ ~empty(d.hours) /\ ~empty(d.compensation)
        THEN LET missing_staff == ColSet(d.hours, "staff_key") \ ColSet(d.compensation, "staff_key")
             IN  IF missing_staff # {}
                 THEN add_failure(s, <<"Harvest Hours staff missing in Compensation",
                                       SortedStaff(missing_staff)>>)
                 ELSE add_pass(s, <<"All Harvest Hours staff have compensation records">>)
        ELSE s

\* validators.py:99-128
KeyIntegrityValidator_validate(d, st) ==
    LET s0 == reach(st, "duplicate_staff")
        s1 == IF "compensation" \in DOMAIN d /\ ~empty(d.compensation)
              THEN IF duplicated(d.compensation) # {}
                   THEN add_failure(s0, <<"Duplicate Last Names in Compensation",
                                          SortedStaff(duplicated(d.compensation))>>)
                   ELSE add_pass(s0, <<"Unique Last Names in Compensation">>)
              ELSE s0
        s2 == missing_staff_check(d, s1)
        s3 == reach(s2, "revenue_cost_conflict")
    IN  IF "revenue_centers" \notin DOMAIN d THEN KeyError(s3, "revenue_centers")
        ELSE IF "cost_centers" \notin DOMAIN d THEN KeyError(s3, "cost_centers")
        ELSE LET conflict == ColOrNone(d.revenue_centers, "contract_code")
                                \cap ColOrNone(d.cost_centers, "contract_code")
             IN  IF conflict # {}
                 THEN done(add_failure(s3, <<"Codes appear as both revenue and cost centers",
                                             Sorted(conflict)>>), "key_integrity")
                 ELSE done(add_pass(s3, <<"No revenue/cost center code conflicts">>),
                           "key_integrity")

\* faulty variant: a column in which nothing was allocated is not compared with its pool
allocation_check_skip_unallocated(rev, pool_dict, col, key, tolerance, st) ==
    LET s == reach(st, col)
    IN  IF HasCol(rev, col) /\ key \in DOMAIN pool_dict /\ SumCol(rev, col) # Zero
        THEN IF FLe(FAbs(FSub(SumCol(rev, col), pool_dict[key])), tolerance)
             THEN add_pass(s, <<col, "sums to pool">>)
             ELSE add_failure(s, <<col, "does not sum to pool">>)
        ELSE s

\* validators.py:163-169 for one allocation column and its pool
allocation_check(rev, pool_dict, col, key, tolerance, st) ==
    LET s == reach(st, col)
    IN  IF HasCol(rev, col) /\ key \in DOMAIN pool_dict
        THEN IF FLe(FAbs(FSub(SumCol(rev, col), pool_dict[key])), tolerance)
             THEN add_pass(s, <<col, "sums to pool">>)
             ELSE add_failure(s, <<col, "does not sum to pool">>)
        ELSE s

\* faulty variant: the data allocation is compared with the SG&A pool
MathematicalValidator_validate_pool_mixup(d, tolerance, st) ==
    IF "revenue_centers" \notin DOMAIN d THEN KeyError(st, "revenue_centers")
    ELSE IF "pools" \notin DOMAIN d THEN KeyError(st, "pools")
    ELSE LET rev == d.revenue_centers
             pool_dict == d.pools
             s0 == reach(st, "revenue_sum")
             s1 == IF "proforma" \in DOMAIN d /\ ~empty(d.proforma)
                        /\ HasCol(d.proforma, "revenue")
                   THEN IF FLe(FAbs(FSub(SumCol(rev, "revenue"), SumCol(d.proforma, "revenue"))),
                               tolerance)
                        THEN add_pass(s0, <<"Revenue sum matches Pro Forma">>)
                        ELSE add_failure(s0, <<"Revenue sum does not match Pro Forma">>)
                   ELSE s0
             s2 == allocation_check(rev, pool_dict, "sga_allocation", "sga_pool", tolerance, s1)
             s3 == allocation_check(rev, pool_dict, "data_allocation", "sga_pool", tolerance, s2)
             s4 == allocation_check(rev, pool_dict, "workplace_allocation", "workplace_pool",
                                    tolerance, s3)
         IN  IF empty(rev) THEN done(st, "mathematical") ELSE done(s4, "mathematical")

\* validators.py:145-169
MathematicalValidator_validate(d, tolerance, st) ==
    IF "revenue_centers" \notin DOMAIN d THEN KeyError(st, "revenue_centers")
    ELSE IF "pools" \notin DOMAIN d THEN KeyError(st, "pools")
    ELSE LET rev == d.revenue_centers
             pool_dict == d.pools
             s0 == reach(st, "revenue_sum")
             s1 == IF "proforma" \in DOMAIN d /\ ~empty(d.proforma)
                        /\ HasCol(d.proforma, "revenue")
                   THEN IF FLe(FAbs(FSub(SumCol(rev, "revenue"), SumCol(d.proforma, "revenue"))),
                               tolerance)
                        THEN add_pass(s0, <<"Revenue sum matches Pro Forma">>)
                        ELSE add_failure(s0, <<"Revenue sum does not match Pro Forma">>)
                   ELSE s0
             s2 == allocation_check(rev, pool_dict, "sga_allocation", "sga_pool", tolerance, s1)
             s3 == allocation_check(rev, pool_dict, "data_allocation", "data_pool", tolerance, s2)
             s4 == allocation_check(rev, pool_dict, "workplace_allocation", "workplace_pool",
                                    tolerance, s3)
         IN  IF empty(rev) THEN done(st, "mathematical") ELSE done(s4, "mathematical")

\* validators.py:184-214
ReasonablenessValidator_validate(d, st) ==
    LET has(k) == k \in DOMAIN d
        s0 == reach(st, "revenue_without_hours")
        no_hours == IF has("revenue_centers") /\ HasCol(d.revenue_centers, "hours")
                    THEN SelectSeq(d.revenue_centers, LAMBDA r : fillna(r.hours) = Zero)
                    ELSE <<>>
        s1 == IF no_hours # <<>>
              THEN add_warning(s0, <<"revenue centers have revenue but no hours", Len(no_hours)>>)
              ELSE s0
        s2 == reach(s1, "hours_without_revenue")
        missing_rev ==
            IF has("hours") /\ ~empty(d.hours) /\ has("revenue_centers")
            THEN (ColSet(d.hours, "contract_code") \ ColSet(d.revenue_centers, "contract_code"))
                     \ (IF has("cost_centers") THEN ColSet(d.cost_centers, "contract_code") ELSE {})
            ELSE {}
        s3 == IF missing_rev # {}
              THEN add_warning(s2, <<"codes have hours but no revenue", Cardinality(missing_rev)>>)
              ELSE s2
        s4 == reach(s3, "unmatched_accounts")
        unmatched ==
            IF has("pnl") /\ HasCol(d.pnl, "matched_by") /\ HasCol(d.pnl, "bucket")
            THEN SelectSeq(d.pnl, LAMBDA r : r.matched_by = "default" /\ r.bucket = "SGA")
            ELSE <<>>
        s5 == IF has("pnl") /\ HasCol(d.pnl, "matched_by") /\ HasCol(d.pnl, "bucket")
              THEN IF unmatched # <<>>
                   THEN add_warning(s4, <<"P&L accounts defaulted to SG&A", Len(unmatched)>>)
                   ELSE add_pass(s4, <<"All P&L accounts matched by tagging rules">>)
              ELSE s4
    IN  done(s5, "reasonableness")

\* validators.py:37-43
summary(st) == <<"PASS", Len(st.passes), "WARN", Len(st.warnings), "FAIL", Len(st.failures)>>

\* faulty variant: the result is returned to the caller even when failures were recorded
run_all_validations_no_raise(d, tolerance) ==
    LET s1 == DataCompletenessValidator_validate(d, NoRun)
        s2 == KeyIntegrityValidator_validate(d, s1)
        s3 == IF s2.raised # "" THEN s2 ELSE MathematicalValidator_validate(d, tolerance, s2)
        s4 == IF s3.raised # "" THEN s3 ELSE ReasonablenessValidator_validate(d, s3)
    IN  IF s4.raised # "" THEN [s4 EXCEPT !.raised = <<s4.raised>>]
        ELSE [s4 EXCEPT !.raised = <<>>]

\* validators.py:217-243; an exception raised in a family escapes at once
run_all_validations(d, tolerance) ==
    LET s1 == DataCompletenessValidator_validate(d, NoRun)
        s2 == KeyIntegrityValidator_validate(d, s1)
        s3 == IF s2.raised # "" THEN s2 ELSE MathematicalValidator_validate(d, tolerance, s2)
        s4 == IF s3.raised # "" THEN s3 ELSE ReasonablenessValidator_validate(d, s3)
    IN  IF s4.raised # "" THEN [s4 EXCEPT !.raised = <<s4.raised>>]
        ELSE IF s4.failures # <<>> THEN [s4 EXCEPT !.raised = <<"Validation failed">> \o summary(s4)]
        ELSE [s4 EXCEPT !.raised = <<>>]

-----------------------------------------------------------------------------
(* Specification of run_all_validations called on a data dict *)

\* the revenue-center table after calculate_margins: empty, or one row
ValidatorRevenueFrames ==
    {<<>>} \cup
    { <<[contract_code |-> ACME, revenue |-> R(1), hours |-> h, sga_allocation |-> a,
         data_allocation |-> Zero, workplace_allocation |-> Zero]>> :
        h \in {R(0), R(1)}, a \in {R(0), R(1)} }

\* pools dicts: complete, or with keys absent
ValidatorPools ==
    { [sga_pool |-> p, data_pool |-> Zero, workplace_pool |-> Zero] : p \in {R(0), R(1)} }
        \cup {[sga_pool |-> R(1)]}

ValidatorProFormaFrames ==
    {<<>>} \cup { <<[contract_code |-> ACME, allocation_tag |-> "", revenue |-> R(i)]>> : i \in 1..2 }

\* compensation tables, one with a staff key twice
ValidatorCompFrames ==
    { [i \in 1..Len(keys) |-> [staff_key |-> keys[i], hourly_cost |-> R(1)]] :
        keys \in {<<>>, <<"Jones">>, <<"Jones", "Jones">>, <<"Jones", "Smith">>} }

ValidatorHoursFrames ==
    {<<>>, <<[contract_code |-> THS1, staff_key |-> "Smith", hours |-> R(1)]>>,
           <<[contract_code |-> ACME, staff_key |-> "Jones", hours |-> R(1)]>>}

ValidatorExpenseFrames == {<<>>, <<[contract_code |-> ACME, amount |-> R(1)]>>}

ValidatorCostCenterFrames ==
    {<<>>, <<[contract_code |-> ACME, description |-> ACME, pool |-> "SGA", total_cost |-> Zero]>>}

ValidatorPnlFrames ==
    {<<>>, <<[bucket |-> "SGA", amount |-> R(1), matched_by |-> "default"]>>,
           <<[bucket |-> "DATA", amount |-> R(1), matched_by |-> "exact"]>>}

\* the keys a caller may leave out of the dict
AbsentKeys == {{}, {"pnl"}, {"pools"}, {"revenue_centers"}, {"cost_centers"}, {"hours", "compensation"}}

\* the dict d without the keys in absent
Without(d, absent) == [k \in DOMAIN d \ absent |-> d[k]]

InitValidate ==
    /\ pc = "validate"
    /\ PhaseIdle
    /\ comp_df = <<>>
    /\ log = <<>>
    /\ \E rev \in ValidatorRevenueFrames, p \in ValidatorPools, pf \in ValidatorProFormaFrames,
          comp \in ValidatorCompFrames, hours \in ValidatorHoursFrames,
          expenses \in ValidatorExpenseFrames, cc \in ValidatorCostCenterFrames,
          pnl \in ValidatorPnlFrames, absent \in AbsentKeys :
           data = Without([revenue_centers |-> rev, cost_centers |-> cc,
                           non_revenue_clients |-> <<>>, proforma |-> pf, hours |-> hours,
                           expenses |-> expenses, compensation |-> comp, pnl |-> pnl,
                           pools |-> p], absent)
    /\ results = NoResults
    /\ files = {}
    /\ month = ""
    /\ frontend = "cli"
    /\ first_run = <<>>
    /\ args = <<>>
    /\ ret = <<>>

\* run_analysis.py:209: validation_results = run_all_validations(data, tolerance=...)
RunAllValidations ==
    /\ pc = "validate"
    /\ ret' = run_all_validations(data, Tolerance)
    /\ IF ret'.raised # <<>>
       THEN pc' = "failed" /\ err' = ret'.raised /\ UNCHANGED results
       ELSE /\ pc' = "validated"
            /\ results' = [passes |-> ret'.passes, warnings |-> ret'.warnings,
                           failures |-> ret'.failures]
            /\ UNCHANGED err
    /\ UNCHANGED <<phase_vars, comp_df, log, data, files, month, frontend, first_run, args>>

NextValidate == RunAllValidations

SpecValidate == InitValidate /\ [][NextValidate]_vars

-----------------------------------------------------------------------------
(* Claims about the validator *)

\* run_all_validations has been called and has returned or raised
Validated == pc \in {"validated", "failed"} /\ DOMAIN ret = DOMAIN NoRun

-----------------------------------------------------------------------------
(* computations.py and the computation phase of main() *)

\* computations.py:28-32: the rate joined to an hours row, missing when the staff has none
hourly_cost_of(staff_key, comp) ==
    LET rows == SelectSeq(comp, LAMBDA r : r.staff_key = staff_key)
    IN  IF rows = <<>> THEN NaN ELSE rows[1].hourly_cost

\* computations.py:28-32: hours_df.merge(comp_df[['staff_key', 'hourly_cost']], how='left')
merged_hours(hours, comp) ==
    WithCol(hours, "hourly_cost", [i \in 1..Len(hours) |-> hourly_cost_of(hours[i].staff_key, comp)])

\* computations.py:34-43: the warning printed for the hours rows without a rate
labor_warnings(hours, comp) ==
    LET missing == SelectSeq(merged_hours(hours, comp), LAMBDA r : IsNaN(r.hourly_cost))
    IN  IF Len(missing) > 0
        THEN <<[text |-> "[WARN] staff missing compensation records",
                staff |-> SortedStaff(ColSet(missing, "staff_key")),
                hours_excluded |-> SumCol(missing, "hours")]>>
        ELSE <<>>

\* computations.py:13-57
calculate_labor_costs(hours, comp) ==
    LET kept == SelectSeq(merged_hours(hours, comp), LAMBDA r : ~IsNaN(r.hourly_cost))
        keys == Sorted(ColSet(kept, "contract_code"))
        of(code) == SelectSeq(kept, LAMBDA r : r.contract_code = code)
    IN  [i \in 1..Len(keys) |->
            [contract_code |-> keys[i],
             hours |-> SumCol(of(keys[i]), "hours"),
             labor_cost |-> SumCol([j \in 1..Len(of(keys[i])) |->
                 [labor_cost |-> FMul(of(keys[i])[j].hours, of(keys[i])[j].hourly_cost)]],
                 "labor_cost")]]

\* computations.py:60-74
calculate_expense_costs(expenses) ==
    LET keys == Sorted(ColSet(expenses, "contract_code"))
    IN  [i \in 1..Len(keys) |->
            [contract_code |-> keys[i],
             expense_cost |-> SumCol(SelectSeq(expenses, LAMBDA r : r.contract_code = keys[i]),
                                     "amount")]]

\* the cell of column col in the row of table for code, 0.0 when there is no such row
\* (a left merge followed by fillna(0.0))
lookup(table, code, col) ==
    LET rows == SelectSeq(table, LAMBDA r : r.contract_code = code)
    IN  IF rows = <<>> THEN Zero ELSE fillna(rows[1][col])

\* computations.py:77-96
merge_direct_costs(rev, labor_df, expense_df) ==
    [i \in 1..Len(rev) |->
        [f \in DOMAIN rev[i] \cup {"hours", "labor_cost", "expense_cost"} |->
            CASE f = "hours" -> lookup(labor_df, rev[i].contract_code, "hours")
              [] f = "labor_cost" -> lookup(labor_df, rev[i].contract_code, "labor_cost")
              [] f = "expense_cost" -> lookup(expense_df, rev[i].contract_code, "expense_cost")
              [] OTHER -> rev[i][f]]]

\* run_analysis.py:149-172: labor, expense and total cost of the rows of a non-empty table
with_totals(table, labor_df, expense_df) ==
    [i \in 1..Len(table) |->
        [f \in DOMAIN table[i] \cup {"labor_cost", "expense_cost", "total_cost"} |->
            CASE f = "labor_cost" -> lookup(labor_df, table[i].contract_code, "labor_cost")
              [] f = "expense_cost" -> lookup(expense_df, table[i].contract_code, "expense_cost")
              [] f = "total_cost" ->
                     FAdd(lookup(labor_df, table[i].contract_code, "labor_cost"),
                          lookup(expense_df, table[i].contract_code, "expense_cost"))
              [] OTHER -> table[i][f]]]

-----------------------------------------------------------------------------
(* Specification of a whole run: main() of run_analysis.py or run_analysis() of app.py, *)
(* from the loaded tables to the output files                                          *)

MaxRunHours == 1

November == "November2025"

\* loaded forecasts: one project, untagged or tagged Data, with or without revenue, or one
\* project with revenue on a code with the internal prefix
RunProFormaFrames ==
    { <<ProFormaProject(ACME, tag, revenue)>> : tag \in {"", "Data"}, revenue \in {R(0), R(1)} }
        \cup {<<ProFormaProject(THS1, "", R(1))>>}

\* loaded compensation tables: staff keys are unique (loaders.py:284-289)
RunCompFrames ==
    { [i \in 1..Len(keys) |-> [staff_key |-> keys[i], hourly_cost |-> R(1)]] :
        keys \in {<<>>, <<"Jones">>, <<"Jones", "Smith">>} }

\* loaded hours tables: date, contract_code, staff_key, hours (the date is left out)
RunHoursFrames ==
    SeqsUpTo([contract_code : {ACME, THS1}, staff_key : {"Jones", "Smith"}, hours : {R(1)}],
             MaxRunHours)

\* loaders.py:466-474: parse_billable; None is the unknown value
parse_billable(v) ==
    IF v \in {"yes", "y", "true", "1"} THEN "True"
    ELSE IF v \in {"no", "n", "false", "0"} THEN "False"
    ELSE "None"

\* loaders.py:447-494: the rows kept (not reimbursable first, then unknown) and the warning
\* printed for the rows whose Billable value is unknown
HarvestExpensesLoader_load(sheet) ==
    LET non_reimbursable == SelectSeq(sheet, LAMBDA r : parse_billable(r.billable) = "False")
        unknown == SelectSeq(sheet, LAMBDA r : parse_billable(r.billable) = "None")
        included == non_reimbursable \o unknown
    IN  [out |-> [i \in 1..Len(included) |->
                     [contract_code |-> included[i].contract_code, amount |-> included[i].amount]],
         printed |-> IF Len(unknown) > 0
                     THEN <<[text |-> "[WARN] expenses have unknown Billable value",
                             count |-> Len(unknown)]>>
                     ELSE <<>>]

\* expense sheets: no row, or rows on a cost-center code that are reimbursable, not
\* reimbursable, or of unknown Billable value
RunExpenseSheets ==
    { [i \in 1..Len(b) |-> [contract_code |-> THS2, amount |-> R(1), billable |-> b[i]]] :
        b \in {<<>>, <<"no">>, <<"maybe">>, <<"yes", "no">>} }

RunPnlFrames ==
    {<<>>, <<[bucket |-> "SGA", amount |-> R(2), matched_by |-> "default"]>>,
           <<[bucket |-> "DATA", amount |-> R(2), matched_by |-> "exact"]>>}

RunConfigFrames == {<<>>, <<ConfigRow(THS1)>>, <<ConfigRow(ACME)>>}

InitRun ==
    /\ pc = "load"
    /\ err = <<>>
    /\ proforma_df \in RunProFormaFrames
    /\ comp_df \in RunCompFrames
    /\ hours_df \in RunHoursFrames
    /\ args \in RunExpenseSheets
    /\ expenses_df = <<>>
    /\ pnl_df \in RunPnlFrames
    /\ cc_config \in RunConfigFrames
    /\ include_cc_in_sga = TRUE
    /\ classified = NoTables
    /\ cost_centers_df = <<>>
    /\ pools = NoPools
    /\ arg_df = <<>>
    /\ revenue_df = <<>>
    /\ log = <<>>
    /\ data = <<>>
    /\ results = NoResults
    /\ files = {}
    /\ month = November
    /\ frontend \in {"cli", "web"}
    /\ first_run = <<>>
    /\ ret = <<>>

\* run_analysis.py:126: expenses_df = HarvestExpensesLoader(args.expenses).load()
LoadExpenses ==
    /\ pc = "load"
    /\ expenses_df' = HarvestExpensesLoader_load(args).out
    /\ log' = log \o HarvestExpensesLoader_load(args).printed
    /\ pc' = "start"
    /\ UNCHANGED <<err, proforma_df, hours_df, cc_config, classified, pnl_df, cost_centers_df,
                   include_cc_in_sga, pools, arg_df, revenue_df, comp_df, data, results, files,
                   month, frontend, first_run, args, ret>>

\* run_analysis.py:144-172
ComputeCosts ==
    /\ pc = "classified"
    /\ LET labor_df == calculate_labor_costs(hours_df, comp_df)
           expense_df == calculate_expense_costs(expenses_df)
       IN  /\ log' = log \o labor_warnings(hours_df, comp_df)
           /\ revenue_df' = merge_direct_costs(proforma_df, labor_df, expense_df)
           /\ classified' =
                  [classified EXCEPT
                      !.cost_centers = with_totals(@, labor_df, expense_df),
                      !.non_revenue_clients = with_totals(@, labor_df, expense_df)]
    /\ pc' = "computed"
    /\ UNCHANGED <<err, proforma_df, hours_df, expenses_df, cc_config, pnl_df, cost_centers_df,
                   include_cc_in_sga, pools, arg_df, comp_df, data, results, files, month,
                   frontend, first_run, args, ret>>

\* run_analysis.py:183-187: calculate_pools(pnl_df, classified['cost_centers'], ...)
RunCalculatePools ==
    /\ pc = "computed"
    /\ cost_centers_df' = classified.cost_centers
    /\ pools' = calculate_pools(pnl_df, classified.cost_centers, include_cc_in_sga)
    /\ pc' = "pools"
    /\ UNCHANGED <<err, proforma_df, hours_df, expenses_df, cc_config, classified, pnl_df,
                   include_cc_in_sga, arg_df, revenue_df, late_vars>>

\* run_analysis.py:198-208: the dict handed to the validator
AssembleData ==
    /\ pc = "margins"
    /\ data' = [revenue_centers |-> revenue_df,
                cost_centers |-> classified.cost_centers,
                non_revenue_clients |-> classified.non_revenue_clients,
                proforma |-> proforma_df,
                hours |-> hours_df,
                expenses |-> expenses_df,
                compensation |-> comp_df,
                pnl |-> pnl_df,
                pools |-> pools]
    /\ pc' = "validate"
    /\ UNCHANGED <<err, phase_vars, comp_df, log, results, files, month, frontend, first_run,
                   args, ret>>

\* a file of the output directory of the month
OutputFile(name) == <<month, name>>

\* one write of the output phase: the file is written and the run goes on, or the write
\* raises OSError (directory not writable, disk full) and the run fails, the file being left
\* behind or not
Write(from, to, name) ==
    /\ pc = from
    /\ \/ /\ files' = files \cup {OutputFile(name)}
          /\ pc' = to
          /\ UNCHANGED err
       \/ /\ files' \in {files, files \cup {OutputFile(name)}}
          /\ pc' = "failed"
          /\ err' = <<"OSError", name>>
    /\ UNCHANGED <<phase_vars, comp_df, log, data, results, month, frontend, first_run, args, ret>>

\* run_analysis.py:220, outputs.py:17-54
WriteRevenueCenters == Write("validated", "revenue_centers", "revenue_centers.csv")

\* run_analysis.py:221, outputs.py:57-91
WriteCostCenters == Write("revenue_centers", "cost_centers", "cost_centers.csv")

\* run_analysis.py:222, outputs.py:94-115
WriteNonRevenueClients == Write("cost_centers", "non_revenue_clients", "non_revenue_clients.csv")

\* run_analysis.py:223, outputs.py:118-180; main() then returns 0, the web run goes on
WriteValidationReport ==
    Write("non_revenue_clients", IF frontend = "cli" THEN "done" ELSE "validation_report",
          "validation_report.md")

\* app.py:199-201
WriteHoursDetail ==
    /\ frontend = "web"
    /\ Write("validation_report", "hours_detail", "_hours_detail.csv")

\* app.py:204-205: written only when there are expenses
WriteExpensesDetail ==
    /\ frontend = "web"
    /\ IF expenses_df # <<>>
       THEN Write("hours_detail", "expenses_detail", "_expenses_detail.csv")
       ELSE /\ pc = "hours_detail"
            /\ pc' = "expenses_detail"
            /\ UNCHANGED <<err, phase_vars, late_vars>>

\* app.py:209-228; run_analysis() then returns success
WritePools ==
    /\ frontend = "web"
    /\ Write("expenses_detail", "done", "_pools.json")

Next ==
    \/ LoadExpenses
    \/ ClassifyAllActivity
    \/ ComputeCosts
    \/ RunCalculatePools
    \/ AllocateSga
    \/ AllocateData
    \/ AllocateWorkplace
    \/ CalculateMargins
    \/ AssembleData
    \/ RunAllValidations
    \/ WriteRevenueCenters
    \/ WriteCostCenters
    \/ WriteNonRevenueClients
    \/ WriteValidationReport
    \/ WriteHoursDetail
    \/ WriteExpensesDetail
    \/ WritePools

Spec == InitRun /\ [][Next]_vars

\* a second run on the same inputs, after a run that succeeded: the tables of the first run
\* are kept for comparison and every name bound by the run is unbound again
Rerun ==
    /\ pc = "done"
    /\ first_run = <<>>
    /\ first_run' = <<[revenue_centers |-> revenue_df,
                       cost_centers |-> classified.cost_centers,
                       non_revenue_clients |-> classified.non_revenue_clients]>>
    /\ pc' = "load"
    /\ expenses_df' = <<>>
    /\ classified' = NoTables
    /\ cost_centers_df' = <<>>
    /\ pools' = NoPools
    /\ arg_df' = <<>>
    /\ revenue_df' = <<>>
    /\ log' = <<>>
    /\ data' = <<>>
    /\ results' = NoResults
    /\ files' = {}
    /\ ret' = <<>>
    /\ UNCHANGED <<err, proforma_df, hours_df, cc_config, pnl_df, include_cc_in_sga,
                   comp_df, month, frontend, args>>

NextRerun == Next \/ Rerun

SpecRerun == InitRun /\ [][NextRerun]_vars

-----------------------------------------------------------------------------
(* Two runs for different month keys, their output phases interleaved: two processes *)
(* started from the command line, or two requests served by the web front end       *)

Runs == {1, 2}

\* month keys, as the components between the slashes of the text given for --month (or the
\* month field of the form): "November2025/../October2025" is
\* <<"November2025", "..", "October2025">>
MonthKeys ==
    {<<"November2025">>, <<"October2025">>, <<"November2025", "..", "October2025">>,
     <<"..", "October2025">>}

\* loaders.py:413-426: re.match accepts a key that begins with a month name and a year,
\* whatever follows; loaders.py:174-177 finds the forecast column by the first three letters
month_accepted(key) == key[1] \in {"November2025", "October2025"}

\* the directory a path names: empty and "." components are dropped, ".." goes one up
RECURSIVE resolve(_, _)
resolve(done_part, rest) ==
    IF rest = <<>> THEN done_part
    ELSE IF Head(rest) \in {"", "."} THEN resolve(done_part, Tail(rest))
    ELSE IF Head(rest) = ".."
         THEN resolve(IF done_part = <<>> THEN <<>> ELSE SubSeq(done_part, 1, Len(done_part) - 1),
                      Tail(rest))
    ELSE resolve(Append(done_part, Head(rest)), Tail(rest))

\* run_analysis.py:219, app.py:191: output_path = Path(output_dir) / month
output_path(key) == resolve(<<>>, <<"outputs">> \o key)

InitMonths ==
    /\ pc = "concurrent"
    /\ PhaseIdle
    /\ comp_df = <<>>
    /\ log = <<>>
    /\ results = NoResults
    /\ month = ""
    /\ first_run = <<>>
    /\ frontend \in {"cli", "web"}
    /\ args \in { k \in [Runs -> MonthKeys] : k[1] # k[2] }
    /\ ret = [r \in Runs |-> "start"]
    /\ data = [r \in Runs |-> {}]
    /\ files = {}

\* run r goes from at to next, the files and the record of its own writes becoming fs and own
MonthStep(r, at, next, fs, own) ==
    /\ ret[r] = at
    /\ ret' = [ret EXCEPT ![r] = next]
    /\ files' = fs
    /\ data' = [data EXCEPT ![r] = own]
    /\ UNCHANGED <<pc, err, phase_vars, comp_df, log, results, month, frontend, first_run, args>>

\* run_analysis.py:123-209, app.py:122-188: the phases before the output phase write no file;
\* they end with the validator passed, or with an exception (always so for a month key the
\* loaders reject)
MonthPipeline ==
    \E r \in Runs :
        \E next \in IF month_accepted(args[r]) THEN {"validated", "failed"} ELSE {"failed"} :
            MonthStep(r, "start", next, files, data[r])

\* one write of run r into the output directory of its month key; the write may raise
MonthWrite(r, at, next, name) ==
    LET path == <<output_path(args[r]), name>>
    IN  \/ MonthStep(r, at, next, files \cup {path}, data[r] \cup {path})
        \/ MonthStep(r, at, "failed", files, data[r])

\* run_analysis.py:220, app.py:192
MonthWriteRevenueCenters ==
    \E r \in Runs : MonthWrite(r, "validated", "revenue_centers", "revenue_centers.csv")

\* run_analysis.py:221, app.py:193
MonthWriteCostCenters ==
    \E r \in Runs : MonthWrite(r, "revenue_centers", "cost_centers", "cost_centers.csv")

\* run_analysis.py:222, app.py:194
MonthWriteNonRevenueClients ==
    \E r \in Runs :
        MonthWrite(r, "cost_centers", "non_revenue_clients", "non_revenue_clients.csv")

\* run_analysis.py:223, app.py:195
MonthWriteValidationReport ==
    \E r \in Runs :
        MonthWrite(r, "non_revenue_clients",
                   IF frontend = "cli" THEN "done" ELSE "validation_report", "validation_report.md")

\* app.py:199-221: the three detail files of the web front end, the expenses one only when
\* there are expenses
MonthWriteDetails ==
    /\ frontend = "web"
    /\ \E r \in Runs :
           \/ MonthWrite(r, "validation_report", "hours_detail", "_hours_detail.csv")
           \/ MonthWrite(r, "hours_detail", "expenses_detail", "_expenses_detail.csv")
           \/ MonthStep(r, "hours_detail", "expenses_detail", files, data[r])
           \/ MonthWrite(r, "expenses_detail", "done", "_pools.json")

NextMonths ==
    \/ MonthPipeline
    \/ MonthWriteRevenueCenters
    \/ MonthWriteCostCenters
    \/ MonthWriteNonRevenueClients
    \/ MonthWriteValidationReport
    \/ MonthWriteDetails

SpecMonths == InitMonths /\ [][NextMonths]_vars

\* C22: two runs for different month keys, however interleaved, write disjoint sets of
\* paths: no run creates or modifies a file in the output directory of the month key of the
\* other run.
C22_DisjointMonthPaths ==
    pc = "concurrent" =>
        \A r \in Runs : \A q \in Runs \ {r} :
            \A path \in data[r] : path[1] # output_path(args[q])

-----------------------------------------------------------------------------
(* Claims about a whole run *)

\* the staff keys of the hours table that have no compensation entry
MissingStaff == ColSet(hours_df, "staff_key") \ ColSet(comp_df, "staff_key")

\* the hours of the staff without a compensation entry
ExcludedHours ==
    SumCol(SelectSeq(hours_df, LAMBDA r : r.staff_key \in MissingStaff), "hours")

\* the labor cost of a code over the hours rows of the staff that have a compensation entry
CostedLabor(code) ==
    LET rows == SelectSeq(hours_df,
                    LAMBDA r : r.contract_code = code /\ r.staff_key \notin MissingStaff)
    IN  SumCol([j \in 1..Len(rows) |->
                   [cost |-> FMul(rows[j].hours, hourly_cost_of(rows[j].staff_key, comp_df))]],
               "cost")

\* the computation phase of the run is over
Computed == pc \notin {"load", "start", "classified"} /\ revenue_df # <<>>

\* the failure the validator records for the staff without a compensation entry
MissingStaffFailure ==
    <<"Harvest Hours staff missing in Compensation", SortedStaff(MissingStaff)>>

\* the validator ran and the failures it recorded
RecordedFailures == IF Validated THEN Range(ret.failures) ELSE {}

\* C12: when a staff key of the hours table has no compensation entry, the hours of that
\* staff are left out of the labor cost, a warning with the excluded hour count is recorded,
\* and the run does not fail for it: a run never ends in failure with that condition as the
\* only failure recorded.
C12_LaborExclusionSucceeds ==
    (Computed /\ MissingStaff # {}) =>
        /\ \A i \in Rows : revenue_df[i].labor_cost = CostedLabor(revenue_df[i].contract_code)
        /\ \E i \in 1..Len(log) :
               /\ log[i].text = "[WARN] staff missing compensation records"
               /\ log[i].hours_excluded = ExcludedHours
        /\ ~(pc = "failed" /\ RecordedFailures = {MissingStaffFailure})

ValidatorRan == DOMAIN ret = DOMAIN NoRun

\* what the completeness family records on the data of the run
Completeness == DataCompletenessValidator_validate(data, NoRun)

\* C25: in the completeness family an empty compensation table is recorded as a failure, and
\* the run is aborted by the validator; an empty hours table and an empty expenses table are
\* each recorded as a warning and never as a failure, and a run in which no failure is recorded
\* is not aborted by the validator.
C25_CompletenessSeverity ==
    ValidatorRan =>
        /\ empty(data.compensation) =>
               /\ <<"Compensation data missing or empty">> \in Range(Completeness.failures)
               /\ <<"Compensation data missing or empty">> \in Range(ret.failures)
               /\ ret.raised # <<>>
        /\ empty(data.hours) => <<"Harvest Hours is empty">> \in Range(Completeness.warnings)
        /\ empty(data.expenses) =>
               <<"Harvest Expenses is empty">> \in Range(Completeness.warnings)
        /\ Range(ret.failures) \cap {<<"Harvest Hours is empty">>, <<"Harvest Expenses is empty">>}
               = {}
        /\ ret.failures = <<>> => ret.raised = <<>>

\* C25 witness: a run with an empty hours table and an empty expenses table that ends with
\* its output written, both warnings recorded
C25_Witness ==
    /\ pc = "done"
    /\ hours_df = <<>>
    /\ expenses_df = <<>>
    /\ {<<"Harvest Hours is empty">>, <<"Harvest Expenses is empty">>} \subseteq Range(results.warnings)

\* outputs.py:137-173: the checks the validation report lists, from the ValidationResult
\* handed to write_validation_report
ReportLines == results.passes \o results.warnings \o results.failures

\* what a message is about: the printed warning and the validator's message on staff without
\* a compensation entry are about the same thing
Subject(text) ==
    IF text \in {"[WARN] staff missing compensation records",
                 "Harvest Hours staff missing in Compensation"}
    THEN "staff missing compensation"
    ELSE text

\* outputs.py:118-179: the summary line and the sections of the report written for res
write_validation_report(res) ==
    [summary |-> summary(res),
     sections |-> { k \in {"passes", "warnings", "failures"} : res[k] # <<>> }]

\* C21: every warning raised during a run that succeeds (the printed ones on staff without
\* compensation and on an unknown Billable value, and the ones the validator records) is
\* listed in the validation report written for that run.
C21_WarningsInReport ==
    (pc = "done" /\ OutputFile("validation_report.md") \in files) =>
        /\ \A i \in 1..Len(log) :
               \E j \in 1..Len(ReportLines) : Subject(ReportLines[j][1]) = Subject(log[i].text)
        /\ \A i \in 1..Len(ret.warnings) :
               \E j \in 1..Len(ReportLines) : ReportLines[j] = ret.warnings[i]

\* C29: output is written only after run_all_validations has returned, which it does only
\* with no failure recorded; every validation report written shows FAIL: 0 and has no
\* failures section.
C29_ReportShowsNoFailure ==
    /\ files # {} => ValidatorRan /\ ret.raised = <<>> /\ ret.failures = <<>>
    /\ OutputFile("validation_report.md") \in files =>
           /\ write_validation_report(results).summary[5] = "FAIL"
           /\ write_validation_report(results).summary[6] = 0
           /\ "failures" \notin write_validation_report(results).sections

\* C29 witness: a report written for a run in which the validator recorded warnings
C29_Witness ==
    /\ OutputFile("validation_report.md") \in files
    /\ write_validation_report(results).sections = {"passes", "warnings"}
    /\ write_validation_report(results).summary[4] > 0

\* C23: when the total of a pool differs from zero by more than the tolerance and the
\* eligible cohort of the pool has zero or negative total revenue, the validator records the
\* reconciliation failure of that pool and the run is aborted with no output written.
C23_UnabsorbedPoolFails ==
    ValidatorRan =>
        \A p \in PoolNames :
            (FGt(FAbs(PoolTotal(p)), Tolerance) /\ FLe(CohortRevenue(p), Zero)) =>
                /\ <<AllocationColumn(p), "does not sum to pool">> \in Range(ret.failures)
                /\ pc = "failed"
                /\ err = <<"Validation failed">> \o summary(ret)
                /\ files = {}

\* C23 witness: a run aborted by the validator for a data pool of 2 that no Data-tagged
\* revenue center absorbs, the only failure recorded
C23_Witness ==
    /\ pc = "failed"
    /\ ValidatorRan
    /\ PoolTotal("data") = R(2)
    /\ CohortRevenue("data") = Zero
    /\ Range(ret.failures) = {<<"data_allocation", "does not sum to pool">>}
    /\ files = {}

\* C26: in a run that reaches the validator, the reconciliation check of a pool records a
\* failure only when the eligible cohort of that pool has zero or negative total revenue; for
\* a cohort with positive total revenue the check passes.
C26_ValidatorFailsOnlyUnabsorbed ==
    ValidatorRan =>
        \A p \in PoolNames :
            /\ <<AllocationColumn(p), "does not sum to pool">> \in Range(ret.failures) =>
                   FLe(CohortRevenue(p), Zero)
            /\ FGt(CohortRevenue(p), Zero) =>
                   <<AllocationColumn(p), "sums to pool">> \in Range(ret.passes)

\* C26 witness: the validator records the failure for an SG&A pool of 2 while the revenue
\* centers have no revenue, and passes the other two pools
C26_Witness ==
    /\ ValidatorRan
    /\ PoolTotal("sga") = R(2)
    /\ CohortRevenue("sga") = Zero
    /\ Range(ret.failures) = {<<"sga_allocation", "does not sum to pool">>}
    /\ <<"data_allocation", "sums to pool">> \in Range(ret.passes)

\* C27: in a run that reaches the validator the revenue-centers table and the cost-centers
\* table handed to it share no code, and the key-integrity check on codes present in both
\* records a pass, never a failure.
C27_NoRevenueCostOverlap ==
    ValidatorRan =>
        /\ ColSet(data.revenue_centers, "contract_code")
               \cap ColSet(data.cost_centers, "contract_code") = {}
        /\ \A i \in 1..Len(ret.failures) :
               ret.failures[i][1] # "Codes appear as both revenue and cost centers"
        /\ <<"No revenue/cost center code conflicts">> \in Range(ret.passes)

\* C27 witness: the validator ran on a revenue center with the internal prefix, resolved in
\* favour of revenue, next to a cost center recognised by the same prefix
C27_Witness ==
    /\ ValidatorRan
    /\ ColSet(data.revenue_centers, "contract_code") = {THS1}
    /\ ColSet(data.cost_centers, "contract_code") = {THS2}
    /\ THS1 \in ColSet(hours_df, "contract_code")
    /\ <<"No revenue/cost center code conflicts">> \in Range(ret.passes)

\* C16: a run that ends in failure, in any phase, has written no output file of the month.
C16_AllOrNothingOutput == pc = "failed" => files = {}

\* the logical tables of the run
RunTables ==
    [revenue_centers |-> revenue_df,
     cost_centers |-> classified.cost_centers,
     non_revenue_clients |-> classified.non_revenue_clients]

\* C17: a second run on the same inputs and configuration yields the same tables as the
\* first, row order included.
C17_SameTablesOnRerun ==
    (pc = "done" /\ first_run # <<>>) => RunTables = first_run[1]

====
